---- MODULE Spec2Model ----
(***************************************************************************)
(* Execution orchestration and real-time event delivery of apilayer-sps:   *)
(* the execution/checkpoint/activity tables, the HITL webhook, the         *)
(* approve/reject/cancel handlers with their calls to the job runner, and  *)
(* the in-memory SSE connection manager.                                   *)
(*                                                                         *)
(* Handlers are coroutines on one event loop: a handler runs atomically    *)
(* from one `await` to the next, so every action below is the code between *)
(* two awaits, commits and trailing writes included.  The database is the  *)
(* committed state only; what a handler holds in its SQLAlchemy session    *)
(* between two steps is part of that handler's request record.             *)
(***************************************************************************)
EXTENDS Integers, Sequences, FiniteSets, Bags, TLC

(***************************************************************************)
(* Bounds of the model.                                                    *)
(***************************************************************************)
MaxCheckpoints == 2
MaxActivities == 4
MaxQueue == 1
MaxInFlight == 2
MaxBatch == 2
MaxEventRows == 2
MaxStreams == 1
MaxTaskParts == 3
MaxPending == 2

(***************************************************************************)
(* Program constants and enumerations.                                     *)
(***************************************************************************)
MAX_CONNECTIONS_PER_USER == 3

None == "none"
Now == "now"
ServerTime == 0

PENDING == "pending"
RUNNING == "running"
AWAITING_APPROVAL == "awaiting_approval"
COMPLETED == "completed"
FAILED == "failed"
CANCELLED == "cancelled"
ExecutionStatus == {PENDING, RUNNING, AWAITING_APPROVAL, COMPLETED, FAILED, CANCELLED}
TerminalStatus == {COMPLETED, CANCELLED, FAILED}

CP_PENDING == "pending"
CP_APPROVED == "approved"
CP_REJECTED == "rejected"
CP_REVISION_REQUESTED == "revision_requested"
CheckpointStatus == {CP_PENDING, CP_APPROVED, CP_REJECTED, CP_REVISION_REQUESTED}

Users == {"u1"}
Tasks == {"brand_voice_review", "style_check"}
Feedbacks == {"looks good"}
Queues == {"q1"}
NoJob == 0          \* crewai_execution_id IS NULL
UnknownJob == -1    \* a kickoff id the platform never gave us

\* kickoff ids the platform hands out, and the execution ids a caller may name
JobIds == {1}
ExecutionRefs == 1..Cardinality(JobIds)
Modes == {"creation", "revision", "repurpose"}

VARIABLES
    executions,     \* crew_executions table (committed rows), execution_id = index
    checkpoints,    \* hitl_checkpoints table (committed rows), checkpoint_id = index
    activities,     \* agent_activity table (committed rows), append-only
    sse_manager,    \* SSEConnectionManager: connections, user_connections, queue_metadata
    queues,         \* contents of the asyncio.Queue of each stream
    req,            \* bag of the handlers suspended at an await, with what each holds
    resp,           \* the handler step taken last and the response it sent, if any
    jobCalls        \* calls made to the job runner (with the platform's answer)

vars == <<executions, checkpoints, activities, sse_manager, queues, req, resp, jobCalls>>
dbVars == <<executions, checkpoints, activities>>
sseVars == <<sse_manager, queues>>

(***************************************************************************)
(* Small helpers for dictionaries with a changing key set.                 *)
(***************************************************************************)
DictDel(f, k) == [x \in (DOMAIN f) \ {k} |-> f[x]]
DictSet(f, k, v) == [x \in (DOMAIN f) \cup {k} |-> IF x = k THEN v ELSE f[x]]
DictGet(f, k, d) == IF k \in DOMAIN f THEN f[k] ELSE d

\* A suspended handler: the await it is at (pc) and the locals it still uses.
Handler(pc, execution_id, checkpoint_id, seen, flag) ==
    [pc |-> pc, execution |-> execution_id, checkpoint |-> checkpoint_id,
     seen |-> seen, flag |-> flag]
\* What a handler step leaves in resp: the operation, its target (an
\* execution, checkpoint or job id) and its other input (a task id, the
\* platform's answer), the HTTP status sent (0 while the handler is
\* suspended), the error the detail reports, and the id and flag of the
\* response body.
Response(op, target, arg, code, error, id, flag) ==
    [op |-> op, target |-> target, arg |-> arg, code |-> code, error |-> error,
     id |-> id, flag |-> flag]
Suspended(op, target, arg) == Response(op, target, arg, 0, None, 0, FALSE)
NoResponse == Suspended(None, 0, None)

(***************************************************************************)
(* SSEConnectionManager (services/sse.py).                                 *)
(***************************************************************************)
SSEInit == [connections |-> <<>>, user_connections |-> <<>>, queue_metadata |-> <<>>]

\* Variant: the limit check uses > where the code has >=.
connect_OffByOne(m, execution_id, user_id, queue) ==
    LET count == DictGet(m.user_connections, user_id, 0)
        uc0 == DictSet(m.user_connections, user_id, count)
    IN IF count > MAX_CONNECTIONS_PER_USER
       THEN [ok |-> FALSE, m |-> [m EXCEPT !.user_connections = uc0]]
       ELSE [ok |-> TRUE,
             m |-> [connections |-> DictSet(m.connections, execution_id,
                                        DictGet(m.connections, execution_id, {}) \cup {queue}),
                    user_connections |-> DictSet(uc0, user_id, count + 1),
                    queue_metadata |-> DictSet(m.queue_metadata, queue,
                                               <<execution_id, user_id>>)]]

connect(m, execution_id, user_id, queue) ==
    LET count == DictGet(m.user_connections, user_id, 0)
        uc0 == DictSet(m.user_connections, user_id, count)
    IN IF count >= MAX_CONNECTIONS_PER_USER
       THEN [ok |-> FALSE, m |-> [m EXCEPT !.user_connections = uc0]]
       ELSE [ok |-> TRUE,
             m |-> [connections |-> DictSet(m.connections, execution_id,
                                        DictGet(m.connections, execution_id, {}) \cup {queue}),
                    user_connections |-> DictSet(uc0, user_id, count + 1),
                    queue_metadata |-> DictSet(m.queue_metadata, queue,
                                               <<execution_id, user_id>>)]]

\* Variant: the user's count is left as it was.
disconnect_NoDecrement(m, queue) ==
    IF queue \notin DOMAIN m.queue_metadata THEN m
    ELSE LET execution_id == m.queue_metadata[queue][1]
             conns == IF execution_id \in DOMAIN m.connections
                      THEN LET rest == m.connections[execution_id] \ {queue}
                           IN IF rest = {} THEN DictDel(m.connections, execution_id)
                              ELSE DictSet(m.connections, execution_id, rest)
                      ELSE m.connections
         IN [connections |-> conns, user_connections |-> m.user_connections,
             queue_metadata |-> DictDel(m.queue_metadata, queue)]

\* Variant: an execution's pool is kept when its last queue leaves.
disconnect_KeepsPool(m, queue) ==
    IF queue \notin DOMAIN m.queue_metadata THEN m
    ELSE LET execution_id == m.queue_metadata[queue][1]
             user_id == m.queue_metadata[queue][2]
             conns == IF execution_id \in DOMAIN m.connections
                      THEN DictSet(m.connections, execution_id,
                                   m.connections[execution_id] \ {queue})
                      ELSE m.connections
             n == DictGet(m.user_connections, user_id, 0) - 1
             uc == IF n <= 0 THEN DictDel(m.user_connections, user_id)
                   ELSE DictSet(m.user_connections, user_id, n)
         IN [connections |-> conns, user_connections |-> uc,
             queue_metadata |-> DictDel(m.queue_metadata, queue)]

disconnect(m, queue) ==
    IF queue \notin DOMAIN m.queue_metadata THEN m
    ELSE LET execution_id == m.queue_metadata[queue][1]
             user_id == m.queue_metadata[queue][2]
             conns == IF execution_id \in DOMAIN m.connections
                      THEN LET rest == m.connections[execution_id] \ {queue}
                           IN IF rest = {} THEN DictDel(m.connections, execution_id)
                              ELSE DictSet(m.connections, execution_id, rest)
                      ELSE m.connections
             n == DictGet(m.user_connections, user_id, 0) - 1
             uc == IF n <= 0 THEN DictDel(m.user_connections, user_id)
                   ELSE DictSet(m.user_connections, user_id, n)
         IN [connections |-> conns, user_connections |-> uc,
             queue_metadata |-> DictDel(m.queue_metadata, queue)]

RECURSIVE disconnectAll(_, _)
disconnectAll(m, dead) ==
    IF dead = {} THEN m
    ELSE LET q == CHOOSE x \in dead : TRUE
         IN disconnectAll(disconnect(m, q), dead \ {q})

SSEEvent(event_type, ref, source) == [event |-> event_type, ref |-> ref, source |-> source]

\* Variant: no early return for an execution without a pool.
broadcast_NoEarlyReturn(m, qs, execution_id, event, dead) ==
    LET targets == DictGet(m.connections, execution_id, {})
        failed == dead \cap targets
        m1 == disconnectAll(m, failed)
        m2 == [m1 EXCEPT !.connections =
                   DictSet(@, execution_id, DictGet(@, execution_id, {}))]
    IN [m |-> m2,
        queues |-> [q \in DOMAIN qs |->
                       IF q \in targets \ failed THEN Append(qs[q], event)
                       ELSE qs[q]]]

\* Variant: the message goes to every registered queue.
broadcast_ToEveryone(m, qs, execution_id, event, dead) ==
    IF execution_id \notin DOMAIN m.connections THEN [m |-> m, queues |-> qs]
    ELSE LET targets == DOMAIN m.queue_metadata
             failed == dead \cap targets
             m1 == disconnectAll(m, failed)
             m2 == [m1 EXCEPT !.connections =
                        DictSet(@, execution_id, DictGet(@, execution_id, {}))]
         IN [m |-> m2,
             queues |-> [q \in DOMAIN qs |->
                            IF q \in targets \ failed THEN Append(qs[q], event)
                            ELSE qs[q]]]

\* Variant: the message is put in front of what a queue holds.
broadcast_InFront(m, qs, execution_id, event, dead) ==
    IF execution_id \notin DOMAIN m.connections THEN [m |-> m, queues |-> qs]
    ELSE LET targets == m.connections[execution_id]
             failed == dead \cap targets
             m1 == disconnectAll(m, failed)
             m2 == [m1 EXCEPT !.connections =
                        DictSet(@, execution_id, DictGet(@, execution_id, {}))]
         IN [m |-> m2,
             queues |-> [q \in DOMAIN qs |->
                            IF q \in targets \ failed THEN <<event>> \o qs[q]
                            ELSE qs[q]]]

\* broadcast: dead is the set of subscribers whose queue.put raises.
broadcast(m, qs, execution_id, event, dead) ==
    IF execution_id \notin DOMAIN m.connections THEN [m |-> m, queues |-> qs]
    ELSE LET targets == m.connections[execution_id]
             failed == dead \cap targets
             m1 == disconnectAll(m, failed)
             \* the closing log line reads self.connections[execution_id_str]
             m2 == [m1 EXCEPT !.connections =
                        DictSet(@, execution_id, DictGet(@, execution_id, {}))]
         IN [m |-> m2,
             queues |-> [q \in DOMAIN qs |->
                            IF q \in targets \ failed THEN Append(qs[q], event)
                            ELSE qs[q]]]

Subscribers(execution_id) == DictGet(sse_manager.connections, execution_id, {})
HasRoom(execution_id) == \A q \in Subscribers(execution_id) : Len(queues[q]) < MaxQueue

\* A handler's `await sse_manager.broadcast(...)` where no put fails.
DoBroadcast(execution_id, event) ==
    /\ HasRoom(execution_id)
    /\ LET b == broadcast(sse_manager, queues, execution_id, event, {})
       IN /\ sse_manager' = b.m
          /\ queues' = b.queues

(***************************************************************************)
(* Rows of the three tables.                                               *)
(***************************************************************************)
CrewExecution(st, job, err) ==
    [status |-> st, crewai_execution_id |-> job, completed_at |-> None,
     error_message |-> err]

HITLCheckpoint(execution_id, task_id) ==
    [execution_id |-> execution_id, task_id |-> task_id, status |-> CP_PENDING,
     reviewer_feedback |-> None, reviewed_by |-> None, reviewed_at |-> None]

\* kind names the handler that wrote the row, ref the checkpoint it is about
\* (activity_metadata.checkpoint_id), event_id the inbound event it came from.
\* timestamp is the inbound event's, or ServerTime for the column default.
AgentActivity(execution_id, kind, ref, event_id, timestamp) ==
    [execution_id |-> execution_id, kind |-> kind, ref |-> ref, event_id |-> event_id,
     timestamp |-> timestamp]

ExecutionIds == 1..Len(executions)
CheckpointIds == 1..Len(checkpoints)

\* Variant: the query has no filter.
ExecutionByJob_NoFilter(job) == ExecutionIds

\* db.query(CrewExecution).filter(crewai_execution_id == job).first()
ExecutionByJob(job) == {e \in ExecutionIds : executions[e].crewai_execution_id = job}

\* Variant: the query filters on REVISION_REQUESTED, a status no handler sets.
PendingFor_WrongStatus(execution_id, task_id) ==
    {c \in CheckpointIds : /\ checkpoints[c].execution_id = execution_id
                           /\ checkpoints[c].task_id = task_id
                           /\ checkpoints[c].status = CP_REVISION_REQUESTED}

\* db.query(HITLCheckpoint).filter(execution_id, task_id, status == PENDING)
PendingFor(execution_id, task_id) ==
    {c \in CheckpointIds : /\ checkpoints[c].execution_id = execution_id
                           /\ checkpoints[c].task_id = task_id
                           /\ checkpoints[c].status = CP_PENDING}

(***************************************************************************)
(* The callback descriptors CrewAIService attaches to a call               *)
(* (services/crewai.py), built from the settings read at start-up.         *)
(***************************************************************************)
ALL_EVENTS ==
    <<"crew_kickoff_started", "crew_kickoff_completed",
      "crew_kickoff_failed", "task_started", "task_completed",
      "task_failed", "agent_execution_started",
      "agent_execution_completed", "agent_execution_error",
      "llm_call_started", "llm_call_completed", "llm_call_failed",
      "llm_stream_chunk", "tool_usage_started", "tool_usage_finished",
      "tool_usage_error", "memory_query_started", "memory_query_completed",
      "memory_save_started", "memory_save_completed",
      "knowledge_query_started", "knowledge_query_completed">>

API_BASE_URL == "http://localhost:8000"
WEBHOOK_SECRET_TOKEN == "dev-secret"

get_webhook_config ==
    [events |-> ALL_EVENTS, url |-> <<API_BASE_URL, "/api/v1/webhook/stream">>,
     realtime |-> FALSE, strategy |-> "bearer", token |-> WEBHOOK_SECRET_TOKEN]

get_hitl_webhook_config ==
    [url |-> <<API_BASE_URL, "/api/v1/webhook/hitl">>, strategy |-> "bearer",
     token |-> WEBHOOK_SECRET_TOKEN]

\* The callback part of the payload of kickoff_crew: its keys with their
\* descriptors.
kickoff_callbacks ==
    {<<"humanInputWebhook", get_hitl_webhook_config>>, <<"webhooks", get_webhook_config>>}

\* Variant: the resume payload re-attaches the HITL descriptor only.
resume_callbacks_NoStream ==
    {<<"humanInputWebhook", get_hitl_webhook_config>>}

\* The callback part of the payload of resume_crew.
resume_callbacks ==
    {<<"humanInputWebhook", get_hitl_webhook_config>>, <<"webhooks", get_webhook_config>>}

\* A call received by the platform; cancel_execution posts no body.
JobCall(op, job, task, approve, accepted, cp) ==
    [op |-> op, job |-> job, task |-> task, approve |-> approve,
     accepted |-> accepted, checkpoint |-> cp,
     callbacks |-> CASE op = "kickoff" -> kickoff_callbacks
                     [] op = "resume" -> resume_callbacks
                     [] OTHER -> {}]

(***************************************************************************)
(* CrewAIService (services/crewai.py): what each method does with the      *)
(* platform's answer.  kickoff_crew and resume_crew return on a 2xx and    *)
(* re-raise everything else (TRUE = returned); cancel_execution returns    *)
(* True on a 2xx and False on everything else.                             *)
(***************************************************************************)
PlatformAnswers == {"2xx", "http_error", "transport_error"}
crewai_kickoff_crew(answer) == answer = "2xx"
crewai_resume_crew(answer) == answer = "2xx"
crewai_cancel_execution(answer) == answer = "2xx"

InFlight == BagToSet(req)
CanSuspend == BagCardinality(req) < MaxInFlight
Suspend(h, step) ==
    /\ req' = req (+) SetToBag({h})
    /\ resp' = step
Resume(h, h2, step) ==
    /\ req' = (req (-) SetToBag({h})) (+) SetToBag({h2})
    /\ resp' = step
Return(h, response) ==
    /\ req' = req (-) SetToBag({h})
    /\ resp' = response
Reply(response) ==
    /\ req' = req
    /\ resp' = response

Init ==
    /\ executions = <<>>
    /\ checkpoints = <<>>
    /\ activities = <<>>
    /\ sse_manager = SSEInit
    /\ queues = [q \in Queues |-> <<>>]
    /\ req = EmptyBag
    /\ resp = NoResponse
    /\ jobCalls = {}

(***************************************************************************)
(* POST /executions/start (routers/executions.py).  The new row is only    *)
(* flushed while kickoff_crew is awaited, so no other handler can see it   *)
(* before the commit that follows the call: one step.                      *)
(***************************************************************************)
\* execution.crewai_execution_id = kickoff_result.get("kickoff_id");
\* execution.status = RUNNING
RecordKickoff(kickoff_id) == CrewExecution(RUNNING, kickoff_id, None)

\* Variant: the failure is recorded without its text.
RecordFailure_NoErrorText == CrewExecution(FAILED, NoJob, None)

\* The inner `except Exception`: execution.status = FAILED;
\* execution.error_message = "Failed to start crew: ..."; db.commit()
RecordFailure == CrewExecution(FAILED, NoJob, "Failed to start crew")

\* The fields of StartExecutionRequest the handler reads while it prepares
\* crew_inputs.  The REVISION branch reads request.initial_draft, which the
\* schema does not declare: the read raises AttributeError.
ReadsUndeclaredField(mode) == mode = "revision"

\* revision_instructions of a request body: the key left out, sent as null,
\* sent as "", or sent with a text.
Absent == "absent"
Null == "null"
Instructions == {Absent, Null, "", "tighten the intro"}

\* @validator('revision_instructions') of StartExecutionRequest: TRUE when
\* it raises.  It is declared without always=True, so it is run on a value
\* the body supplies (null included) and not on the default of a key left
\* out; `not v` holds for None and for "".
validate_revision_mode(mode, v) ==
    mode = "revision" /\ v \in {Null, ""}

\* The request's workflow mode and revision instructions, and the answer the
\* platform gives (or would give) to the kickoff, as carried by the step
\* label.
StartInput(mode, revision_instructions, answer) ==
    [mode |-> mode, instructions |-> revision_instructions, answer |-> answer]

start_execution(mode, revision_instructions, answer, kickoff_id) ==
    /\ Len(executions) < Cardinality(JobIds)
    /\ ExecutionByJob(kickoff_id) = {}
    /\ LET id == Len(executions) + 1
           input == StartInput(mode, revision_instructions, answer)
       IN IF validate_revision_mode(mode, revision_instructions)
          \* the body is validated before the handler is entered
          THEN /\ Reply(Response("start_execution", id, input, 422, "ValidationError",
                                 0, FALSE))
               /\ UNCHANGED <<executions, activities, jobCalls>>
          ELSE IF ReadsUndeclaredField(mode)
          \* outer `except Exception`: db.rollback() drops the flushed row
          THEN /\ Reply(Response("start_execution", id, input, 500, "AttributeError",
                                 0, FALSE))
               /\ UNCHANGED <<executions, activities, jobCalls>>
          ELSE IF crewai_kickoff_crew(answer)
          THEN /\ Len(activities) < MaxActivities
               /\ executions' = Append(executions, RecordKickoff(kickoff_id))
               /\ activities' = Append(activities,
                                       AgentActivity(id, "kickoff", 0, None, ServerTime))
               /\ jobCalls' = jobCalls \cup
                      {JobCall("kickoff", kickoff_id, None, FALSE, TRUE, 0)}
               /\ Reply(Response("start_execution", id, input, 201, None, id, FALSE))
          ELSE /\ executions' = Append(executions, RecordFailure)
               /\ activities' = activities
               /\ jobCalls' = jobCalls \cup {JobCall("kickoff", NoJob, None, FALSE, FALSE, 0)}
               /\ Reply(Response("start_execution", id, input, 500, "UpstreamError",
                                 0, FALSE))
    /\ UNCHANGED <<checkpoints, sse_manager, queues>>

(***************************************************************************)
(* POST /webhook/hitl (routers/webhooks.py): up to the commit, then the    *)
(* awaited broadcast.                                                      *)
(***************************************************************************)
receive_hitl_checkpoint(job, task_id) ==
    IF ExecutionByJob(job) = {}
    THEN /\ Reply(Response("receive_hitl_checkpoint", job, task_id, 404, "NotFound", 0, FALSE))
         /\ UNCHANGED <<dbVars, sseVars, jobCalls>>
    ELSE \E execution_id \in ExecutionByJob(job) :
         IF PendingFor(execution_id, task_id) # {}
         THEN \E existing \in PendingFor(execution_id, task_id) :
              /\ Reply(Response("receive_hitl_checkpoint", job, task_id, 200, None,
                                existing, FALSE))
              /\ UNCHANGED <<dbVars, sseVars, jobCalls>>
         ELSE /\ CanSuspend
              /\ Len(checkpoints) < MaxCheckpoints
              /\ Len(activities) < MaxActivities
              /\ checkpoints' = Append(checkpoints, HITLCheckpoint(execution_id, task_id))
              /\ activities' = Append(activities,
                     AgentActivity(execution_id, "checkpoint", Len(checkpoints) + 1, None,
                                   ServerTime))
              /\ executions' = [executions EXCEPT ![execution_id].status = AWAITING_APPROVAL]
              /\ Suspend(Handler("hitl_broadcast", execution_id, Len(checkpoints) + 1,
                                 None, FALSE),
                         Suspended("receive_hitl_checkpoint", job, task_id))
              /\ UNCHANGED <<sseVars, jobCalls>>

\* Variant: the handler answers without the broadcast.
hitl_broadcast_Silent(h) ==
    /\ h.pc = "hitl_broadcast"
    /\ Return(h, Response("hitl_broadcast", h.execution, None, 200, None, h.checkpoint, TRUE))
    /\ UNCHANGED <<dbVars, sseVars, jobCalls>>

hitl_broadcast(h) ==
    /\ h.pc = "hitl_broadcast"
    /\ DoBroadcast(h.execution, SSEEvent("checkpoint", h.checkpoint, None))
    /\ Return(h, Response("hitl_broadcast", h.execution, None, 200, None, h.checkpoint, TRUE))
    /\ UNCHANGED <<dbVars, jobCalls>>

(***************************************************************************)
(* POST /checkpoints/{id}/approve and /reject (routers/checkpoints.py).    *)
(* The two handlers differ in the status they set, the activity text, the  *)
(* is_approve flag of the resume call and will_retry of the response.      *)
(*                                                                         *)
(* First step: up to `await crewai_service.resume_crew(...)`.  The commit  *)
(* expires the session; reading execution.crewai_execution_id for the call *)
(* reloads the execution row, which the session then holds (seen) until    *)
(* the handler writes execution.status after the call.                     *)
(***************************************************************************)
\* Variant: only an APPROVED checkpoint is turned away.
NotPending_OnlyApproved(checkpoint) == checkpoint.status = CP_APPROVED

\* `if checkpoint.status != CheckpointStatus.PENDING` of both handlers.
NotPending(checkpoint) == checkpoint.status # CP_PENDING

\* What the caller sends: current_user and HITLApprovalRequest.feedback.
ReviewRequest(user, feedback) == [user |-> user, feedback |-> feedback]

review_begin(op, checkpoint_id, user, feedback, is_approve) ==
    IF checkpoint_id \notin CheckpointIds
    THEN /\ Reply(Response(op, checkpoint_id, None, 404, "NotFound", 0, FALSE))
         /\ UNCHANGED <<dbVars, sseVars, jobCalls>>
    ELSE LET checkpoint == checkpoints[checkpoint_id]
             execution == executions[checkpoint.execution_id]
         IN IF NotPending(checkpoint)
            THEN /\ Reply(Response(op, checkpoint_id, None, 400, "InvalidState", 0, FALSE))
                 /\ UNCHANGED <<dbVars, sseVars, jobCalls>>
            ELSE IF execution.crewai_execution_id = NoJob
            THEN /\ Reply(Response(op, checkpoint_id, None, 500, "NoJobId", 0, FALSE))
                 /\ UNCHANGED <<dbVars, sseVars, jobCalls>>
            ELSE /\ CanSuspend
                 /\ Len(activities) < MaxActivities
                 /\ checkpoints' = [checkpoints EXCEPT ![checkpoint_id] =
                       [@ EXCEPT !.status = IF is_approve THEN CP_APPROVED ELSE CP_REJECTED,
                                 !.reviewer_feedback = feedback,
                                 !.reviewed_by = user,
                                 !.reviewed_at = Now]]
                 /\ activities' = Append(activities,
                       AgentActivity(checkpoint.execution_id,
                                     IF is_approve THEN "approved" ELSE "revision_requested",
                                     checkpoint_id, None, ServerTime))
                 /\ Suspend(Handler("resume", checkpoint.execution_id, checkpoint_id,
                                    execution.status, is_approve),
                            Suspended(op, checkpoint_id, ReviewRequest(user, feedback)))
                 /\ UNCHANGED <<executions, sseVars, jobCalls>>

approve_checkpoint(checkpoint_id, user, feedback) ==
    review_begin("approve_checkpoint", checkpoint_id, user, feedback, TRUE)

reject_checkpoint(checkpoint_id, user, feedback) ==
    review_begin("reject_checkpoint", checkpoint_id, user, feedback, FALSE)

\* Variant: the rollback resets the status and the timestamp only.
RollbackCheckpoint_KeepsReviewer(cps, checkpoint_id) ==
    [cps EXCEPT ![checkpoint_id] = [@ EXCEPT !.status = CP_PENDING,
                                             !.reviewed_at = None]]

\* Variant: the rollback marks the checkpoint REVISION_REQUESTED.
RollbackCheckpoint_RevisionRequested(cps, checkpoint_id) ==
    [cps EXCEPT ![checkpoint_id] = [@ EXCEPT !.status = CP_REVISION_REQUESTED,
                                             !.reviewed_by = None,
                                             !.reviewed_at = None]]

\* The inner `except Exception` block: status, reviewed_by and reviewed_at
\* are reset and committed.
RollbackCheckpoint(cps, checkpoint_id) ==
    [cps EXCEPT ![checkpoint_id] = [@ EXCEPT !.status = CP_PENDING,
                                             !.reviewed_by = None,
                                             !.reviewed_at = None]]

\* execution.status = RUNNING; db.commit(): the UPDATE is emitted only when
\* the value differs from the one the session loaded before the call.
WriteRunning(execs, execution_id, seen) ==
    IF seen = RUNNING THEN execs
    ELSE [execs EXCEPT ![execution_id].status = RUNNING]

(***************************************************************************)
(* Second step: resume_crew returns or raises, up to the next await (the   *)
(* broadcast) or the end of the handler.  commit_ok = FALSE is the commit  *)
(* of execution.status raising inside the same try block; the detail of    *)
(* the 500 carries the exception that was caught.                          *)
(***************************************************************************)
resume_return(h, answer, commit_ok) ==
    /\ h.pc = "resume"
    /\ jobCalls' = jobCalls \cup
           {JobCall("resume", executions[h.execution].crewai_execution_id,
                    checkpoints[h.checkpoint].task_id, h.flag,
                    crewai_resume_crew(answer), h.checkpoint)}
    /\ IF crewai_resume_crew(answer) /\ commit_ok
       THEN /\ executions' = WriteRunning(executions, h.execution, h.seen)
            /\ Resume(h, [h EXCEPT !.pc = "review_broadcast"],
                      Suspended("resume_return", h.checkpoint, answer))
            /\ UNCHANGED checkpoints
       ELSE /\ checkpoints' = RollbackCheckpoint(checkpoints, h.checkpoint)
            /\ Return(h, Response("resume_return", h.checkpoint, answer, 500,
                                  IF crewai_resume_crew(answer) THEN "StoreError"
                                  ELSE "UpstreamError",
                                  0, FALSE))
            /\ UNCHANGED executions
    /\ UNCHANGED <<activities, sseVars>>

review_broadcast(h) ==
    /\ h.pc = "review_broadcast"
    /\ DoBroadcast(h.execution, SSEEvent("approval", h.checkpoint, None))
    \* will_retry = not is_approve
    /\ Return(h, Response("review_broadcast", h.checkpoint, None, 200, None,
                          h.checkpoint, ~h.flag))
    /\ UNCHANGED <<dbVars, jobCalls>>

(***************************************************************************)
(* DELETE /executions/{id} (routers/executions.py).                        *)
(***************************************************************************)
\* Variant: the cancel also drops the reference to the job it cancelled.
CancelCommit_ClearsJob(execution_id) ==
    /\ Len(activities) < MaxActivities
    /\ executions' = [executions EXCEPT ![execution_id].status = CANCELLED,
                                        ![execution_id].completed_at = Now,
                                        ![execution_id].crewai_execution_id = NoJob]
    /\ activities' = Append(activities,
                            AgentActivity(execution_id, "cancelled", 0, None, ServerTime))

CancelCommit(execution_id) ==
    /\ Len(activities) < MaxActivities
    /\ executions' = [executions EXCEPT ![execution_id].status = CANCELLED,
                                        ![execution_id].completed_at = Now]
    /\ activities' = Append(activities,
                            AgentActivity(execution_id, "cancelled", 0, None, ServerTime))

\* Variant: CANCELLED is missing from the list.
AlreadyFinished_NotCancelled(status) == status \in {COMPLETED, FAILED}

\* `if execution.status in [COMPLETED, CANCELLED, FAILED]`
AlreadyFinished(status) == status \in {COMPLETED, CANCELLED, FAILED}

cancel_execution(execution_id) ==
    IF execution_id \notin ExecutionIds
    THEN /\ Reply(Response("cancel_execution", execution_id, None, 404, "NotFound", 0, FALSE))
         /\ UNCHANGED <<dbVars, sseVars, jobCalls>>
    ELSE IF AlreadyFinished(executions[execution_id].status)
    THEN /\ Reply(Response("cancel_execution", execution_id, None, 400, "InvalidState",
                           0, FALSE))
         /\ UNCHANGED <<dbVars, sseVars, jobCalls>>
    ELSE /\ CanSuspend
         /\ IF executions[execution_id].crewai_execution_id # NoJob
            THEN /\ Suspend(Handler("cancel", execution_id, 0,
                                    executions[execution_id].status, FALSE),
                            Suspended("cancel_execution", execution_id, None))
                 /\ UNCHANGED <<dbVars, sseVars, jobCalls>>
            ELSE /\ CancelCommit(execution_id)
                 /\ Suspend(Handler("cancel_broadcast", execution_id, 0, None, FALSE),
                            Suspended("cancel_execution", execution_id, None))
                 /\ UNCHANGED <<checkpoints, sseVars, jobCalls>>

\* Variant: a failed cancel call on the job runner ends the request.
cancel_return_FailureIsFatal(h, answer) ==
    /\ h.pc = "cancel"
    /\ LET crewai_cancelled == crewai_cancel_execution(answer)
       IN /\ jobCalls' = jobCalls \cup
                {JobCall("cancel", executions[h.execution].crewai_execution_id,
                         None, FALSE, crewai_cancelled, 0)}
          /\ IF crewai_cancelled
             THEN /\ CancelCommit(h.execution)
                  /\ Resume(h, Handler("cancel_broadcast", h.execution, 0, None, TRUE),
                            Suspended("cancel_return", h.execution, answer))
             ELSE /\ UNCHANGED <<executions, activities>>
                  /\ Return(h, Response("cancel_return", h.execution, answer, 500,
                                        "UpstreamError", 0, FALSE))
    /\ UNCHANGED <<checkpoints, sseVars>>

cancel_return(h, answer) ==
    /\ h.pc = "cancel"
    /\ LET crewai_cancelled == crewai_cancel_execution(answer)
       IN /\ jobCalls' = jobCalls \cup
                {JobCall("cancel", executions[h.execution].crewai_execution_id,
                         None, FALSE, crewai_cancelled, 0)}
          /\ CancelCommit(h.execution)
          /\ Resume(h, Handler("cancel_broadcast", h.execution, 0, None, crewai_cancelled),
                    Suspended("cancel_return", h.execution, answer))
    /\ UNCHANGED <<checkpoints, sseVars>>

cancel_broadcast(h) ==
    /\ h.pc = "cancel_broadcast"
    /\ DoBroadcast(h.execution, SSEEvent("cancelled", 0, None))
    /\ Return(h, Response("cancel_broadcast", h.execution, None, 200, None,
                          h.execution, h.flag))
    /\ UNCHANGED <<dbVars, jobCalls>>

(***************************************************************************)
(* POST /webhook/stream (routers/webhooks.py).  The handler's session has  *)
(* autoflush off: the rows it adds reach the table only at the commit that *)
(* follows the loop, and its idempotency query reads the table.            *)
(***************************************************************************)
EventIds == {"evt-1", "evt-2"}
Timestamps == 1..2

WebhookEvent(id, job, timestamp, type) ==
    [id |-> id, execution_id |-> job, timestamp |-> timestamp, type |-> type]

EventsOf(types) ==
    {WebhookEvent(id, job, ts, type) :
        id \in EventIds, job \in JobIds \cup {UnknownJob}, ts \in Timestamps, type \in types}


\* sorted(payload.events, key=lambda e: e.timestamp): a stable sort.
RECURSIVE InsertByTimestamp(_, _)
InsertByTimestamp(sortedEvents, e) ==
    IF sortedEvents = <<>> THEN <<e>>
    ELSE IF Head(sortedEvents).timestamp <= e.timestamp
         THEN <<Head(sortedEvents)>> \o InsertByTimestamp(Tail(sortedEvents), e)
         ELSE <<e>> \o sortedEvents

\* Variant: the events are taken in the order of the payload.
sorted_AsReceived(events) == events

RECURSIVE sorted(_)
sorted(events) ==
    IF events = <<>> THEN <<>>
    ELSE InsertByTimestamp(sorted(SubSeq(events, 1, Len(events) - 1)), events[Len(events)])

\* Variant: the query looks under a metadata key no row has.
existing_activity_WrongKey(event_id) == {}

\* db.query(AgentActivity).filter(activity_metadata['event_id'] == event.id).first()
existing_activity(event_id) == {i \in 1..Len(activities) : activities[i].event_id = event_id}

\* _transform_event_to_message: the activity type of an event type.
ActivityTypeOf(event_type) ==
    CASE event_type = "task_started" -> "task_start"
      [] event_type = "task_completed" -> "task_complete"
      [] event_type \in {"task_failed", "crew_kickoff_failed"} -> "error"
      [] event_type \in {"agent_execution_started", "agent_execution_completed"}
            -> "agent_thinking"
      [] event_type \in {"llm_call_started", "llm_call_completed"} -> "llm_call"
      [] event_type \in {"tool_usage_started", "tool_usage_finished"} -> "tool_usage"
      [] event_type = "crew_kickoff_started" -> "crew_kickoff"
      [] OTHER -> "message"

\* Where the processing of an event raises, if it does: in the first query
\* of the loop body, or in the awaited broadcast.  Which events raise is the
\* environment's choice, made per request.
FaultPoints == {"none", "query", "broadcast"}
NoFaults == [id \in EventIds |-> "none"]
Faults == [EventIds -> FaultPoints]

\* `except Exception as e: error_count += 1; continue`
count_error(h, event_id) == [h EXCEPT !.error = @ + 1, !.failed = @ \cup {event_id}]

\* The body of `for event in sorted_events`, run from the handler's position
\* to its next await (the broadcast of a processed event) or to the end of
\* the loop.
RECURSIVE event_loop(_)
event_loop(h) ==
    IF h.events = <<>> THEN [h EXCEPT !.pc = "stream_commit"]
    ELSE LET event == Head(h.events)
             skip == [h EXCEPT !.events = Tail(h.events), !.skipped = @ + 1]
         IN IF h.faults[event.id] = "query"
            THEN event_loop(count_error([h EXCEPT !.events = Tail(h.events)], event.id))
            ELSE IF existing_activity(event.id) # {} THEN event_loop(skip)
            ELSE IF ExecutionByJob(event.execution_id) = {} THEN event_loop(skip)
            ELSE LET execution_id == CHOOSE e \in ExecutionByJob(event.execution_id) : TRUE
                     activity == AgentActivity(execution_id, ActivityTypeOf(event.type), 0,
                                               event.id, event.timestamp)
                 IN [h EXCEPT !.pc = "stream_broadcast",
                              !.events = Tail(h.events),
                              !.execution = execution_id,
                              !.current = event.id,
                              !.new = Append(@, activity),
                              !.processed = @ + 1]

\* The handler's locals at the top of the loop; `failed` keeps the ids the
\* error log lines name, `total` is len(payload.events).
StreamHandlerWith(events, faults) ==
    [pc |-> "stream_loop", events |-> events, execution |-> 0, current |-> None,
     new |-> <<>>, processed |-> 0, skipped |-> 0, error |-> 0,
     total |-> Len(events), failed |-> {}, faults |-> faults]

StreamHandler(events) == StreamHandlerWith(events, NoFaults)

\* What a step of this handler leaves in resp: the handler as the step found
\* it and as it left it, and the HTTP status sent (0 while suspended; the
\* counters of the response body are those of `after`).
StreamStep(op, before, after, code) ==
    [op |-> op, before |-> before, after |-> after, code |-> code]

\* Rows added by suspended handlers and not yet committed.
RECURSIVE Uncommitted(_)
Uncommitted(hs) ==
    IF hs = {} THEN 0
    ELSE LET h == CHOOSE x \in hs : TRUE
         IN (IF h.pc = "stream_broadcast" THEN Len(h.new) * CopiesIn(h, req) ELSE 0)
            + Uncommitted(hs \ {h})

\* Rows of the table that came from an inbound event.
EventRows == Cardinality({i \in 1..Len(activities) : activities[i].event_id # None})

RoomFor(n) == EventRows + Uncommitted(InFlight) + n <= MaxEventRows
CanSuspendStream == BagCardinality(req) < MaxStreams

\* The step that received a request, naming payload.events as posted.
Received(step, payload) == step @@ [payload |-> payload]

\* The handler; posted says whether the step names the payload as posted.
receive_event_stream_request(payload, faults, posted) ==
    /\ RoomFor(Len(payload))
    /\ LET h0 == StreamHandlerWith(sorted(payload), faults)
           h == event_loop(h0)
           code == IF h.pc = "stream_commit" THEN 200 ELSE 0
           step == StreamStep("receive_event_stream", h0, h, code)
           label == IF posted THEN Received(step, payload) ELSE step
       IN IF h.pc = "stream_commit"
          THEN /\ activities' = activities \o h.new
               /\ Reply(label)
          ELSE /\ CanSuspendStream
               /\ Suspend(h, label)
               /\ UNCHANGED activities
    /\ UNCHANGED <<executions, checkpoints, sseVars, jobCalls>>

receive_event_stream_with(payload, faults) ==
    receive_event_stream_request(payload, faults, FALSE)

\* The handler where no event raises.
receive_event_stream(payload) == receive_event_stream_with(payload, NoFaults)

\* The same handler, its step naming the payload as posted.
receive_event_stream_posted(payload) ==
    receive_event_stream_request(payload, NoFaults, TRUE)

\* Variant: an event recorded as an error also ends the execution as FAILED.
stream_broadcast_FailsExecution(h) ==
    /\ h.pc = "stream_broadcast"
    /\ IF h.faults[h.current] = "broadcast"
       THEN UNCHANGED sseVars
       ELSE DoBroadcast(h.execution, SSEEvent("message", 0, h.current))
    /\ LET h1 == IF h.faults[h.current] = "broadcast" THEN count_error(h, h.current) ELSE h
           h2 == event_loop(h1)
       IN IF h2.pc = "stream_commit"
          THEN /\ activities' = activities \o h2.new
               /\ Return(h, StreamStep("stream_broadcast", h, h2, 200))
          ELSE /\ Resume(h, h2, StreamStep("stream_broadcast", h, h2, 0))
               /\ UNCHANGED activities
    /\ executions' = IF h.new[Len(h.new)].kind = "error"
                     THEN [executions EXCEPT ![h.execution].status = FAILED]
                     ELSE executions
    /\ UNCHANGED <<checkpoints, jobCalls>>

stream_broadcast(h) ==
    /\ h.pc = "stream_broadcast"
    /\ IF h.faults[h.current] = "broadcast"
       THEN UNCHANGED sseVars
       ELSE DoBroadcast(h.execution, SSEEvent("message", 0, h.current))
    /\ LET h1 == IF h.faults[h.current] = "broadcast" THEN count_error(h, h.current) ELSE h
           h2 == event_loop(h1)
       IN IF h2.pc = "stream_commit"
          THEN /\ activities' = activities \o h2.new
               /\ Return(h, StreamStep("stream_broadcast", h, h2, 200))
          ELSE /\ Resume(h, h2, StreamStep("stream_broadcast", h, h2, 0))
               /\ UNCHANGED activities
    /\ UNCHANGED <<executions, checkpoints, jobCalls>>

(***************************************************************************)
(* GET /executions/{id}/stream (routers/executions.py): registration, the  *)
(* generator handing one queued event to the client, and the generator's   *)
(* `finally` after the client went away.                                   *)
(***************************************************************************)
stream_execution_events(execution_id, user, queue) ==
    /\ queue \notin DOMAIN sse_manager.queue_metadata
    /\ IF execution_id \notin ExecutionIds
       THEN /\ Reply(Response("stream_execution_events", execution_id, queue, 404,
                              "NotFound", 0, FALSE))
            /\ UNCHANGED <<sseVars>>
       ELSE LET c == connect(sse_manager, execution_id, user, queue)
            IN /\ sse_manager' = c.m
               /\ queues' = [queues EXCEPT ![queue] = <<>>]
               /\ Reply(IF c.ok
                        THEN Response("stream_execution_events", execution_id, queue, 200,
                                      None, 0, TRUE)
                        ELSE Response("stream_execution_events", execution_id, queue, 429,
                                      "ResourceExhausted", 0, FALSE))
    /\ UNCHANGED <<dbVars, jobCalls>>

event_generator_next(queue) ==
    /\ queue \in DOMAIN sse_manager.queue_metadata
    /\ queues[queue] # <<>>
    /\ queues' = [queues EXCEPT ![queue] = Tail(@)]
    /\ Reply(Suspended("event_generator_next", 0, queue))
    /\ UNCHANGED <<dbVars, sse_manager, jobCalls>>

\* After the generator is closed nothing holds its queue any more.
event_generator_finally(queue) ==
    /\ queue \in DOMAIN sse_manager.queue_metadata
    /\ sse_manager' = disconnect(sse_manager, queue)
    /\ queues' = [queues EXCEPT ![queue] = <<>>]
    /\ Reply(Suspended("event_generator_finally", 0, queue))
    /\ UNCHANGED <<dbVars, jobCalls>>

(***************************************************************************)
(* The orchestration specification: every handler of the checkpoint        *)
(* protocol, in any interleaving of their steps.                           *)
(***************************************************************************)
Start ==
    \E mode \in Modes, v \in Instructions, a \in PlatformAnswers, job \in JobIds :
       start_execution(mode, v, a, job)

Orchestration ==
    \/ Start
    \/ \E job \in JobIds \cup {UnknownJob}, t \in Tasks : receive_hitl_checkpoint(job, t)
    \/ \E h \in InFlight : hitl_broadcast(h)
    \/ \E c \in 1..MaxCheckpoints, u \in Users, f \in Feedbacks : approve_checkpoint(c, u, f)
    \/ \E c \in 1..MaxCheckpoints, u \in Users, f \in Feedbacks : reject_checkpoint(c, u, f)
    \/ \E h \in InFlight, a \in PlatformAnswers, commit_ok \in BOOLEAN :
          resume_return(h, a, commit_ok)
    \/ \E h \in InFlight : review_broadcast(h)
    \/ \E e \in ExecutionRefs : cancel_execution(e)
    \/ \E h \in InFlight, a \in PlatformAnswers : cancel_return(h, a)
    \/ \E h \in InFlight : cancel_broadcast(h)

Next == Orchestration

Spec == Init /\ [][Next]_vars

(***************************************************************************)
(* The broadcast specification: the handlers that answer a notification or *)
(* a cancel, with viewers that come and go.                                *)
(***************************************************************************)
Viewers ==
    \/ \E e \in ExecutionRefs, u \in Users, q \in Queues : stream_execution_events(e, u, q)
    \/ \E q \in Queues : event_generator_next(q)
    \/ \E q \in Queues : event_generator_finally(q)

NextBroadcast ==
    \/ Start
    \/ \E job \in JobIds \cup {UnknownJob}, t \in Tasks : receive_hitl_checkpoint(job, t)
    \/ \E h \in InFlight : hitl_broadcast(h)
    \/ \E e \in ExecutionRefs : cancel_execution(e)
    \/ \E h \in InFlight, a \in PlatformAnswers : cancel_return(h, a)
    \/ \E h \in InFlight : cancel_broadcast(h)
    \/ Viewers

SpecBroadcast == Init /\ [][NextBroadcast]_vars

(***************************************************************************)
(* The review specification: notifications are answered by approvals and   *)
(* rejections while viewers come and go.                                   *)
(***************************************************************************)
NextReview ==
    \/ Start
    \/ \E job \in JobIds, t \in Tasks : receive_hitl_checkpoint(job, t)
    \/ \E h \in InFlight : hitl_broadcast(h)
    \/ \E c \in 1..MaxCheckpoints, u \in Users, f \in Feedbacks : approve_checkpoint(c, u, f)
    \/ \E c \in 1..MaxCheckpoints, u \in Users, f \in Feedbacks : reject_checkpoint(c, u, f)
    \/ \E h \in InFlight, a \in PlatformAnswers, commit_ok \in BOOLEAN :
          resume_return(h, a, commit_ok)
    \/ \E h \in InFlight : review_broadcast(h)
    \/ Viewers

SpecReview == Init /\ [][NextReview]_vars

(***************************************************************************)
(* The event-stream specification: executions are started, event batches   *)
(* are ingested, viewers come and go.                                      *)
(***************************************************************************)
StreamEvents == EventsOf({"task_started"})

EventStream ==
    \/ \E n \in 1..MaxBatch :
          /\ RoomFor(n)
          /\ \E payload \in [1..n -> StreamEvents] : receive_event_stream(payload)
    \/ \E h \in InFlight : stream_broadcast(h)

NextEvents ==
    \/ Start
    \/ EventStream
    \/ Viewers

SpecEvents == Init /\ [][NextEvents]_vars

(***************************************************************************)
(* The batch-order specification: as SpecEvents for the events of a known  *)
(* execution, each request's step naming its payload as posted.            *)
(***************************************************************************)
BatchEvents == {e \in StreamEvents : e.execution_id \in JobIds}

NextOrder ==
    \/ Start
    \/ \E n \in 1..MaxBatch :
          /\ RoomFor(n)
          /\ \E payload \in [1..n -> BatchEvents] : receive_event_stream_posted(payload)
    \/ \E h \in InFlight : stream_broadcast(h)
    \/ Viewers

SpecOrder == Init /\ [][NextOrder]_vars

(***************************************************************************)
(* The event-stream specification with failures: as SpecEvents, and the    *)
(* processing of any event of a batch may raise.                           *)
(***************************************************************************)
FailingEventStream ==
    \/ \E n \in 1..MaxBatch :
          /\ RoomFor(n)
          /\ \E payload \in [1..n -> StreamEvents], faults \in Faults :
                receive_event_stream_with(payload, faults)
    \/ \E h \in InFlight : stream_broadcast(h)

NextFailingEvents ==
    \/ Start
    \/ FailingEventStream
    \/ Viewers

SpecFailingEvents == Init /\ [][NextFailingEvents]_vars

(***************************************************************************)
(* The connection-manager specification: the three methods of              *)
(* SSEConnectionManager called in any order, by several callers, for       *)
(* several executions.  connect is given a queue that is not registered    *)
(* (its one caller creates the queue right before); disconnect is given    *)
(* any queue, registered or not; a put of broadcast may raise.             *)
(***************************************************************************)
ManagerExecutions == {1, 2}
ManagerUsers == {"u1", "u2"}
ManagerQueues == {"q1", "q2", "q3", "q4"}

\* queue = asyncio.Queue(): a new object each time.  Which of the unused
\* names stands for it makes no difference to the manager, so the first
\* unused one in this order is taken.
QueueOrder == <<"q1", "q2", "q3", "q4">>
NewQueue(m) ==
    LET free == {i \in 1..Len(QueueOrder) : QueueOrder[i] \notin DOMAIN m.queue_metadata}
    IN {QueueOrder[i] : i \in {j \in free : \A k \in free : j <= k}}

\* What a step of the manager leaves in resp: the method, its arguments, the
\* value returned by connect (for disconnect: whether the queue was
\* registered, with the execution and caller it was registered for) and the
\* queues whose put raised.
ManagerStep(op, execution_id, user_id, queue, ok, dead) ==
    [op |-> op, execution |-> execution_id, user |-> user_id, queue |-> queue,
     ok |-> ok, dead |-> dead]

InitManager ==
    /\ executions = <<>>
    /\ checkpoints = <<>>
    /\ activities = <<>>
    /\ sse_manager = SSEInit
    /\ queues = [q \in ManagerQueues |-> <<>>]
    /\ req = EmptyBag
    /\ resp = NoResponse
    /\ jobCalls = {}

manager_connect(execution_id, user_id, queue) ==
    /\ queue \in NewQueue(sse_manager)
    /\ LET c == connect(sse_manager, execution_id, user_id, queue)
       IN /\ sse_manager' = c.m
          /\ queues' = [queues EXCEPT ![queue] = <<>>]
          /\ resp' = ManagerStep("connect", execution_id, user_id, queue, c.ok, {})
    /\ UNCHANGED <<dbVars, req, jobCalls>>

\* The caller of disconnect is the finally block of a viewer's generator,
\* which ends with it: the queue object and what it still held are dropped.
manager_disconnect(queue) ==
    /\ sse_manager' = disconnect(sse_manager, queue)
    /\ queues' = [queues EXCEPT ![queue] = <<>>]
    /\ resp' = IF queue \in DOMAIN sse_manager.queue_metadata
               THEN ManagerStep("disconnect", sse_manager.queue_metadata[queue][1],
                                sse_manager.queue_metadata[queue][2], queue, TRUE, {})
               ELSE ManagerStep("disconnect", 0, None, queue, FALSE, {})
    /\ UNCHANGED <<dbVars, req, jobCalls>>

manager_broadcast(execution_id, dead) ==
    /\ HasRoom(execution_id)
    /\ dead \subseteq Subscribers(execution_id)
    /\ LET b == broadcast(sse_manager, queues, execution_id,
                          SSEEvent("message", 0, None), dead)
       IN /\ sse_manager' = b.m
          /\ queues' = b.queues
    /\ resp' = ManagerStep("broadcast", execution_id, None, None, TRUE, dead)
    /\ UNCHANGED <<dbVars, req, jobCalls>>

NextManager ==
    \/ \E e \in ManagerExecutions, u \in ManagerUsers, q \in ManagerQueues :
          manager_connect(e, u, q)
    \/ \E q \in ManagerQueues : manager_disconnect(q)
    \/ \E e \in ManagerExecutions, dead \in SUBSET ManagerQueues : manager_broadcast(e, dead)

SpecManager == InitManager /\ [][NextManager]_vars

(***************************************************************************)
(* The ingestion specification: event batches that report the end of a     *)
(* crew or the failure of a task, for executions that wait at checkpoints. *)
(***************************************************************************)
OutcomeEvents ==
    {e \in EventsOf({"crew_kickoff_completed", "crew_kickoff_failed", "task_failed"}) :
        e.timestamp = 1 /\ e.execution_id \in JobIds /\ e.id = "evt-1"}

NextIngest ==
    \/ Start
    \/ \E job \in JobIds, t \in Tasks : receive_hitl_checkpoint(job, t)
    \/ \E h \in InFlight : hitl_broadcast(h)
    \/ \E n \in 1..MaxBatch :
          /\ RoomFor(n)
          /\ \E payload \in [1..n -> OutcomeEvents] : receive_event_stream(payload)
    \/ \E h \in InFlight : stream_broadcast(h)
    \/ Viewers

SpecIngest == Init /\ [][NextIngest]_vars

(***************************************************************************)
(* The delivery specification: broadcasts of any handler to an execution   *)
(* whose viewers' queues hold several events at a time, the generators     *)
(* that empty the queues, and their heartbeats.                            *)
(***************************************************************************)
BroadcastEvents ==
    {SSEEvent("message", 0, id) : id \in EventIds} \cup
    {SSEEvent("checkpoint", 1, None), SSEEvent("approval", 1, None),
     SSEEvent("cancelled", 0, None)}

\* `await sse_manager.broadcast(...)` of a handler, no put failing.
handler_broadcast(execution_id, event) ==
    /\ \A q \in Subscribers(execution_id) : Len(queues[q]) < MaxPending
    /\ LET b == broadcast(sse_manager, queues, execution_id, event, {})
       IN /\ sse_manager' = b.m
          /\ queues' = b.queues
    /\ Reply(Suspended("broadcast", execution_id, None))
    /\ UNCHANGED <<dbVars, jobCalls>>

\* The generator's wait for an event timed out on an empty queue:
\* send_heartbeat puts a heartbeat on that queue, and the next turn of the
\* loop takes it from there.
send_heartbeat(queue) ==
    /\ queue \in DOMAIN sse_manager.queue_metadata
    /\ queues[queue] = <<>>
    /\ queues' = [queues EXCEPT ![queue] = Append(@, SSEEvent("heartbeat", 0, None))]
    /\ Reply(Suspended("send_heartbeat", 0, queue))
    /\ UNCHANGED <<dbVars, sse_manager, jobCalls>>

NextDelivery ==
    \/ Start
    \/ \E e \in ExecutionRefs, event \in BroadcastEvents : handler_broadcast(e, event)
    \/ \E q \in Queues : send_heartbeat(q)
    \/ Viewers

SpecDelivery == Init /\ [][NextDelivery]_vars

(***************************************************************************)
(* The classification specification: _infer_checkpoint_type applied to any *)
(* task id.  A task id is written as the sequence of the parts it is the   *)
(* concatenation of; a word is in it when one of its parts is that word.   *)
(***************************************************************************)
BRAND_VOICE == "brand_voice"
STYLE_COMPLIANCE == "style_compliance"
FINAL_QA == "final_qa"

TaskParts == {"Brand", "voice", "STYLE", "compliance", "qa", "final", "review", "draft"}
TaskIds == UNION {[1..n -> TaskParts] : n \in 1..MaxTaskParts}

\* str.lower(), part by part.
lower(task_id) ==
    [i \in 1..Len(task_id) |->
        CASE task_id[i] = "Brand" -> "brand"
          [] task_id[i] = "STYLE" -> "style"
          [] OTHER -> task_id[i]]

\* `word in task_lower`
contains(task_lower, word) == \E i \in 1..Len(task_lower) : task_lower[i] = word

\* Variant: the style rule is tried before the brand rule.
infer_checkpoint_type_StyleFirst(task_id) ==
    LET task_lower == lower(task_id)
    IN IF contains(task_lower, "style") \/ contains(task_lower, "compliance")
       THEN STYLE_COMPLIANCE
       ELSE IF contains(task_lower, "brand") \/ contains(task_lower, "voice")
       THEN BRAND_VOICE
       ELSE FINAL_QA

infer_checkpoint_type(task_id) ==
    LET task_lower == lower(task_id)
    IN IF contains(task_lower, "brand") \/ contains(task_lower, "voice")
       THEN BRAND_VOICE
       ELSE IF contains(task_lower, "style") \/ contains(task_lower, "compliance")
       THEN STYLE_COMPLIANCE
       ELSE IF contains(task_lower, "qa") \/ contains(task_lower, "final")
               \/ contains(task_lower, "review")
       THEN FINAL_QA
       ELSE FINAL_QA

InferStep(task_id, checkpoint_type) ==
    [op |-> "infer_checkpoint_type", task_id |-> task_id, checkpoint_type |-> checkpoint_type]

classify(task_id) ==
    /\ resp' = InferStep(task_id, infer_checkpoint_type(task_id))
    /\ UNCHANGED <<dbVars, sseVars, req, jobCalls>>

NextInfer == \E task_id \in TaskIds : classify(task_id)

SpecInfer == Init /\ [][NextInfer]_vars

(***************************************************************************)
(* The streaming specification: GET /executions/{id}/stream with the       *)
(* response it returns followed from the handler's return to the end of    *)
(* its generator.  The handler registers the queue and returns             *)
(* StreamingResponse(event_generator()); the generator's try/finally is    *)
(* entered when the server first asks the generator for a chunk, and a     *)
(* generator closed before that runs none of its body.                     *)
(***************************************************************************)
StreamingResponse(pc, execution_id, queue) ==
    [pc |-> pc, execution |-> execution_id, queue |-> queue]

\* The handler, up to `return StreamingResponse(...)`.
open_stream(execution_id, user, queue) ==
    /\ queue \notin DOMAIN sse_manager.queue_metadata
    /\ \A g \in InFlight : g.pc \in {"response", "event_generator"} => g.queue # queue
    /\ IF execution_id \notin ExecutionIds
       THEN /\ Reply(Response("stream_execution_events", execution_id, queue, 404,
                              "NotFound", 0, FALSE))
            /\ UNCHANGED <<sseVars>>
       ELSE LET c == connect(sse_manager, execution_id, user, queue)
            IN /\ sse_manager' = c.m
               /\ queues' = [queues EXCEPT ![queue] = <<>>]
               /\ IF c.ok
                  THEN Suspend(StreamingResponse("response", execution_id, queue),
                               Response("stream_execution_events", execution_id, queue, 200,
                                        None, 0, TRUE))
                  ELSE Reply(Response("stream_execution_events", execution_id, queue, 429,
                                      "ResourceExhausted", 0, FALSE))
    /\ UNCHANGED <<dbVars, jobCalls>>

\* The server starts to send the body: the generator runs to its first
\* yield, the "connected" message, inside the try.
response_start(g) ==
    /\ g.pc = "response"
    /\ Resume(g, [g EXCEPT !.pc = "event_generator"],
              Suspended("response_start", g.execution, g.queue))
    /\ UNCHANGED <<dbVars, sseVars, jobCalls>>

\* The response is dropped before its body is asked for (the client is
\* gone, or sending the response head failed): the generator is closed
\* without having run.
response_abandoned(g) ==
    /\ g.pc = "response"
    /\ Return(g, Suspended("response_abandoned", g.execution, g.queue))
    /\ UNCHANGED <<dbVars, sseVars, jobCalls>>

\* `event = await asyncio.wait_for(queue.get(), ...); yield event`
generator_next(g) ==
    /\ g.pc = "event_generator"
    /\ event_generator_next(g.queue)

\* The generator leaves its try: break after is_disconnected, an exception,
\* or its cancellation; `finally: sse_manager.disconnect(queue)`.
generator_exit(g) ==
    /\ g.pc = "event_generator"
    /\ sse_manager' = disconnect(sse_manager, g.queue)
    /\ queues' = [queues EXCEPT ![g.queue] = <<>>]
    /\ Return(g, Suspended("event_generator_finally", g.execution, g.queue))
    /\ UNCHANGED <<dbVars, jobCalls>>

NextStreams ==
    \/ Start
    \/ \E job \in JobIds \cup {UnknownJob}, t \in Tasks : receive_hitl_checkpoint(job, t)
    \/ \E h \in InFlight : hitl_broadcast(h)
    \/ \E e \in ExecutionRefs, u \in Users, q \in Queues : open_stream(e, u, q)
    \/ \E g \in InFlight : response_start(g)
    \/ \E g \in InFlight : response_abandoned(g)
    \/ \E g \in InFlight : generator_next(g)
    \/ \E g \in InFlight : generator_exit(g)

\* Every response is in the end sent or dropped, and every client of a
\* stream that is being sent goes away in the end.
SpecStreams ==
    /\ Init
    /\ [][NextStreams]_vars
    /\ WF_vars(\E g \in InFlight : response_start(g) \/ response_abandoned(g))
    /\ WF_vars(\E g \in InFlight : generator_exit(g))

(***************************************************************************)
(* The webhook specification: the two webhook endpoints behind their       *)
(* dependency verify_webhook_token (dependencies.py).  An Authorization    *)
(* header is absent, or a string, written here as the sequence of the      *)
(* parts it is the concatenation of.                                       *)
(***************************************************************************)
BEARER == "Bearer "
HeaderParts == {BEARER, WEBHOOK_SECRET_TOKEN, "wrong-token"}
NoHeader == [present |-> FALSE, value |-> <<>>]
AuthorizationHeader(value) == [present |-> TRUE, value |-> value]
Authorizations ==
    {NoHeader} \cup
    {AuthorizationHeader(value) :
        value \in UNION {[1..n -> HeaderParts] : n \in 0..2}
                  \cup [1..3 -> {BEARER, WEBHOOK_SECRET_TOKEN}]}

\* The events the platform posts in this specification.
WebhookEvents == {e \in EventsOf({"task_started"}) : e.timestamp = 1}

\* str.startswith and str.replace(old, "") on such strings.
startswith(value, prefix) == Len(value) >= 1 /\ value[1] = prefix
replace(value, old) == SelectSeq(value, LAMBDA part : part # old)

\* verify_webhook_token: the status the request is refused with, 200 when
\* the dependency returns True.  Header(...) makes the header required.
verify_webhook_token(authorization) ==
    IF ~authorization.present THEN 422
    ELSE IF authorization.value = <<>> THEN 401
    ELSE IF ~startswith(authorization.value, BEARER) THEN 401
    ELSE IF replace(authorization.value, BEARER) # <<WEBHOOK_SECRET_TOKEN>> THEN 401
    ELSE 200

\* `_auth: bool = Depends(verify_webhook_token)`: the handler runs when the
\* dependency returned, and not at all when it raised.
Depends_verify_webhook_token(authorization, handler) ==
    IF verify_webhook_token(authorization) = 200
    THEN handler
    ELSE /\ Reply(Response("verify_webhook_token", 0, None,
                           verify_webhook_token(authorization), "Unauthorized", 0, FALSE))
         /\ UNCHANGED <<dbVars, sseVars, jobCalls>>

webhook_hitl(authorization, job, task_id) ==
    Depends_verify_webhook_token(authorization, receive_hitl_checkpoint(job, task_id))

webhook_stream(authorization, payload) ==
    Depends_verify_webhook_token(authorization, receive_event_stream(payload))

NextWebhooks ==
    \/ Start
    \/ \E authorization \in Authorizations, job \in JobIds \cup {UnknownJob}, t \in Tasks :
          webhook_hitl(authorization, job, t)
    \/ \E h \in InFlight : hitl_broadcast(h)
    \/ \E authorization \in Authorizations, n \in 1..MaxBatch :
          \E payload \in [1..n -> WebhookEvents] : webhook_stream(authorization, payload)
    \/ \E h \in InFlight : stream_broadcast(h)
    \/ Viewers

SpecWebhooks == Init /\ [][NextWebhooks]_vars

(***************************************************************************)
(* The client specification: CrewAIService.cancel_execution called for any *)
(* job id, with the platform answering with an HTTP status or not at all.  *)
(***************************************************************************)
HttpStatus(code) == [kind |-> "status", code |-> code]
TransportFailure == [kind |-> "transport", code |-> 0]
CancelAnswers ==
    {HttpStatus(200), HttpStatus(204), HttpStatus(404), HttpStatus(405), HttpStatus(409),
     HttpStatus(500), HttpStatus(503), TransportFailure}

\* How a call of the client ends: it returns a value or raises.
Returned(value) == [raised |-> FALSE, value |-> value]

\* response.raise_for_status() raises HTTPStatusError unless the status is 2xx.
raise_for_status(answer) == ~(answer.code \in 200..299)

\* CrewAIService.cancel_execution: `return True` after raise_for_status; the
\* handlers of HTTPStatusError (404, 405 and every other status alike), of
\* RequestError and of Exception all end in `return False`.
CrewAIService_cancel_execution(answer) ==
    IF answer.kind = "transport" THEN Returned(FALSE)
    ELSE IF raise_for_status(answer)
         THEN IF answer.code = 404 THEN Returned(FALSE)
              ELSE IF answer.code = 405 THEN Returned(FALSE)
              ELSE Returned(FALSE)
         ELSE Returned(TRUE)

ClientStep(op, job, answer, outcome) ==
    [op |-> op, job |-> job, answer |-> answer, outcome |-> outcome]

client_cancel(job, answer) ==
    LET outcome == CrewAIService_cancel_execution(answer)
    IN /\ jobCalls' = jobCalls \cup
              {JobCall("cancel", job, None, FALSE, ~outcome.raised /\ outcome.value, 0)}
       /\ resp' = ClientStep("client_cancel", job, answer, outcome)
       /\ UNCHANGED <<dbVars, sseVars, req>>

NextClient == \E job \in JobIds \cup {UnknownJob}, answer \in CancelAnswers :
                 client_cancel(job, answer)

SpecClient == Init /\ [][NextClient]_vars

(***************************************************************************)
(* Properties.  They read the tables, the registry and resp directly.      *)
(***************************************************************************)
ReviewSteps == {"approve_checkpoint", "reject_checkpoint"}
ReviewInProgress(c) ==
    \E h \in BagToSet(req) : h.pc \in {"resume", "review_broadcast"} /\ h.checkpoint = c
Registered(e) ==
    e \in DOMAIN sse_manager.connections /\ sse_manager.connections[e] # {}

\* C1: in every reachable state at most one checkpoint is PENDING per
\* (execution, task id).
C1_OnePendingPerTask ==
    \A c1, c2 \in 1..Len(checkpoints) :
        ( /\ checkpoints[c1].status = CP_PENDING
          /\ checkpoints[c2].status = CP_PENDING
          /\ checkpoints[c1].execution_id = checkpoints[c2].execution_id
          /\ checkpoints[c1].task_id = checkpoints[c2].task_id ) => c1 = c2

\* C2: once an execution's status is COMPLETED, FAILED or CANCELLED no step
\* changes it.
C2_TerminalIsFinal ==
    [][\A e \in 1..Len(executions) :
          executions[e].status \in {COMPLETED, FAILED, CANCELLED}
             => executions'[e].status = executions[e].status]_vars

\* C3: when the resume call of an approve or reject fails, the step that
\* handles the failure leaves the checkpoint PENDING with no reviewer and no
\* reviewed-at, answers with the upstream error, and neither that step nor
\* the step that marked the checkpoint changes any execution.
C3_ResumeFailureRollsBack ==
    [][ /\ (resp'.op = "resume_return" /\ resp'.arg # "2xx") =>
              /\ resp'.code = 500
              /\ resp'.error = "UpstreamError"
              /\ checkpoints'[resp'.target].status = CP_PENDING
              /\ checkpoints'[resp'.target].reviewed_by = None
              /\ checkpoints'[resp'.target].reviewed_at = None
              /\ executions' = executions
        /\ (resp'.op \in ReviewSteps) => executions' = executions ]_vars

C3_Witness ==
    /\ resp.op = "resume_return"
    /\ resp.arg # "2xx"
    /\ checkpoints[resp.target].status = CP_PENDING
    /\ checkpoints[resp.target].reviewer_feedback # None
    /\ \E i \in 1..Len(activities) :
          activities[i].ref = resp.target /\ activities[i].kind = "revision_requested"

\* C4: an approve or reject of a checkpoint that is not PENDING answers
\* InvalidState, calls nothing on the job runner and changes no table.
C4_NotPendingIsRejected ==
    [][ ( /\ resp'.op \in ReviewSteps
          /\ resp'.target \in 1..Len(checkpoints)
          /\ checkpoints[resp'.target].status # CP_PENDING )
        => /\ resp'.code = 400
           /\ resp'.error = "InvalidState"
           /\ UNCHANGED <<checkpoints, executions, activities, jobCalls, req>> ]_vars

C4_Witness ==
    /\ resp.op \in ReviewSteps
    /\ resp.code = 400
    /\ checkpoints[resp.target].status = CP_APPROVED
    /\ \E h \in BagToSet(req) : h.pc = "resume" /\ h.checkpoint = resp.target

StreamSteps == {"receive_event_stream", "stream_broadcast"}
Recorded(id) == \E j \in 1..Len(activities) : activities[j].event_id = id

C7_DuplicateNotificationIsNoOp ==
    [][ \A e \in 1..Len(executions) :
          ( /\ resp'.op = "receive_hitl_checkpoint"
            /\ executions[e].crewai_execution_id = resp'.target
            /\ \E c \in 1..Len(checkpoints) :
                  /\ checkpoints[c].execution_id = e
                  /\ checkpoints[c].task_id = resp'.arg
                  /\ checkpoints[c].status = CP_PENDING )
          => /\ resp'.code = 200
             /\ resp'.id \in 1..Len(checkpoints)
             /\ checkpoints[resp'.id].execution_id = e
             /\ checkpoints[resp'.id].task_id = resp'.arg
             /\ checkpoints[resp'.id].status = CP_PENDING
             /\ UNCHANGED <<checkpoints, executions, activities, sse_manager, queues,
                            jobCalls, req>> ]_vars

C7_Witness ==
    /\ resp.op = "receive_hitl_checkpoint"
    /\ resp.code = 200
    /\ resp.id \in 1..Len(checkpoints)
    /\ checkpoints[resp.id].status = CP_PENDING
    /\ Registered(checkpoints[resp.id].execution_id)

C9_CancelTerminalIsRejected ==
    [][ ( /\ resp'.op = "cancel_execution"
          /\ resp'.target \in 1..Len(executions)
          /\ executions[resp'.target].status \in {COMPLETED, FAILED, CANCELLED} )
        => /\ resp'.code = 400
           /\ resp'.error = "InvalidState"
           /\ UNCHANGED <<checkpoints, executions, activities, sse_manager, queues,
                          jobCalls, req>> ]_vars

C9_Witness ==
    /\ resp.op = "cancel_execution"
    /\ resp.code = 400
    /\ executions[resp.target].status = CANCELLED
    /\ Registered(resp.target)

\* C10: a cancel of an execution that is not terminal is accepted; whatever
\* the job runner answers, the step after the call marks the execution
\* CANCELLED with a completion timestamp and appends exactly one Activity
\* for it, and the last step puts one 'cancelled' event on the queue of every
\* subscriber of the execution and answers 200.
C10_CancelAlwaysCancels ==
    [][ /\ ( /\ resp'.op = "cancel_execution"
             /\ resp'.target \in 1..Len(executions)
             /\ executions[resp'.target].status \notin {COMPLETED, FAILED, CANCELLED} )
           => resp'.code = 0
        /\ (resp'.op = "cancel_return") =>
              /\ executions'[resp'.target].status = CANCELLED
              /\ executions'[resp'.target].completed_at # None
              /\ Len(activities') = Len(activities) + 1
              /\ SubSeq(activities', 1, Len(activities)) = activities
              /\ activities'[Len(activities')].execution_id = resp'.target
              /\ activities'[Len(activities')].kind = "cancelled"
        /\ (resp'.op = "cancel_broadcast") =>
              /\ resp'.code = 200
              /\ \A q \in DOMAIN queues :
                    queues'[q] =
                       IF /\ resp'.target \in DOMAIN sse_manager.connections
                          /\ q \in sse_manager.connections[resp'.target]
                       THEN Append(queues[q], [event |-> "cancelled", ref |-> 0,
                                               source |-> None])
                       ELSE queues[q] ]_vars

C10_Witness ==
    /\ resp.op = "cancel_broadcast"
    /\ resp.code = 200
    /\ ~resp.flag
    /\ executions[resp.target].status = CANCELLED
    /\ \E q \in DOMAIN queues :
          /\ queues[q] # <<>>
          /\ queues[q][Len(queues[q])].event = "cancelled"

\* C11: an execution row is never removed, and once its external job id holds
\* a value no step changes or clears it.
C11_JobIdSetOnce ==
    [][ /\ Len(executions') >= Len(executions)
        /\ \A e \in 1..Len(executions) :
              executions[e].crewai_execution_id # NoJob
                 => executions'[e].crewai_execution_id = executions[e].crewai_execution_id ]_vars

C11_Witness ==
    /\ resp.op = "cancel_return"
    /\ executions[resp.target].status = CANCELLED
    /\ executions[resp.target].crewai_execution_id \in JobIds
    /\ \E call \in jobCalls : call.op = "resume" /\ call.accepted

(***************************************************************************)
(* Properties of the connection manager.                                   *)
(***************************************************************************)
\* The queues registered for a caller, and for an execution, in registry m.
QueuesOfUser(m, u) == {q \in DOMAIN m.queue_metadata : m.queue_metadata[q][2] = u}
QueuesOfExecution(m, e) == {q \in DOMAIN m.queue_metadata : m.queue_metadata[q][1] = e}
CountOf(m, u) == IF u \in DOMAIN m.user_connections THEN m.user_connections[u] ELSE 0
PoolOf(m, e) == IF e \in DOMAIN m.connections THEN m.connections[e] ELSE {}

\* C12: after every step each caller has at most 3 registered queues, over
\* all executions, and the caller's count is that number; a connect is
\* refused exactly when the caller's count is 3, and a refused connect
\* leaves the registry as it was.
C12_CapPerCaller ==
    [][ /\ \A u \in ManagerUsers :
              /\ Cardinality(QueuesOfUser(sse_manager', u)) <= 3
              /\ CountOf(sse_manager', u) = Cardinality(QueuesOfUser(sse_manager', u))
        /\ resp'.op = "connect" =>
              /\ ~resp'.ok <=> CountOf(sse_manager, resp'.user) = 3
              /\ ~resp'.ok => /\ sse_manager' = sse_manager
                              /\ resp'.queue \notin DOMAIN sse_manager'.queue_metadata ]_vars

C12_Witness ==
    /\ resp.op = "connect"
    /\ ~resp.ok
    /\ Cardinality(QueuesOfUser(sse_manager, resp.user)) = 3
    /\ \E e1, e2 \in ManagerExecutions :
          /\ e1 # e2
          /\ QueuesOfExecution(sse_manager, e1) \cap QueuesOfUser(sse_manager, resp.user) # {}
          /\ QueuesOfExecution(sse_manager, e2) \cap QueuesOfUser(sse_manager, resp.user) # {}

\* C13: a disconnect of one of a caller's 3 registered queues leaves the
\* caller with 2 and a count of 2; a caller's number of registered queues
\* grows only by that caller's own accepted connect; and a connect of a
\* caller with fewer than 3 registered queues is accepted and registers the
\* queue, whatever the execution.
C13_FreedSlotIsReusable ==
    [][ \A u \in ManagerUsers :
          /\ ( /\ resp'.op = "disconnect"
               /\ resp'.queue \in QueuesOfUser(sse_manager, u)
               /\ Cardinality(QueuesOfUser(sse_manager, u)) = 3 )
             => /\ Cardinality(QueuesOfUser(sse_manager', u)) = 2
                /\ CountOf(sse_manager', u) = 2
          /\ Cardinality(QueuesOfUser(sse_manager', u)) > Cardinality(QueuesOfUser(sse_manager, u))
             => resp'.op = "connect" /\ resp'.user = u /\ resp'.ok
          /\ ( /\ resp'.op = "connect"
               /\ resp'.user = u
               /\ Cardinality(QueuesOfUser(sse_manager, u)) < 3 )
             => /\ resp'.ok
                /\ resp'.queue \in QueuesOfUser(sse_manager', u)
                /\ resp'.queue \in PoolOf(sse_manager', resp'.execution) ]_vars

\* A caller that held 3 queues has just disconnected one, after an event
\* reached its queues, and the other caller holds a queue too.
C13_Witness ==
    /\ resp.op = "disconnect"
    /\ resp.ok
    /\ Cardinality(QueuesOfUser(sse_manager, resp.user)) = 2
    /\ CountOf(sse_manager, resp.user) = 2
    /\ \A q \in QueuesOfUser(sse_manager, resp.user) : queues[q] # <<>>
    /\ \E u \in ManagerUsers \ {resp.user} : CountOf(sse_manager, u) = 1

\* C14: a disconnect of a registered queue removes it from its execution's
\* pool (and the pool's entry with it when it was the last), lowers its
\* caller's count by one and touches no other queue, caller or execution; a
\* disconnect of a queue that is not registered changes nothing in the
\* registry and no other queue.
C14_DisconnectIdempotent ==
    [][ resp'.op = "disconnect" =>
          LET q == resp'.queue
          IN IF q \in DOMAIN sse_manager.queue_metadata
             THEN LET e == sse_manager.queue_metadata[q][1]
                      u == sse_manager.queue_metadata[q][2]
                  IN /\ resp'.ok
                     /\ DOMAIN sse_manager'.queue_metadata =
                           DOMAIN sse_manager.queue_metadata \ {q}
                     /\ \A x \in DOMAIN sse_manager'.queue_metadata :
                           sse_manager'.queue_metadata[x] = sse_manager.queue_metadata[x]
                     /\ PoolOf(sse_manager', e) = PoolOf(sse_manager, e) \ {q}
                     /\ (PoolOf(sse_manager, e) = {q}) =>
                           e \notin DOMAIN sse_manager'.connections
                     /\ \A x \in ManagerExecutions \ {e} :
                           /\ PoolOf(sse_manager', x) = PoolOf(sse_manager, x)
                           /\ x \in DOMAIN sse_manager'.connections
                                 <=> x \in DOMAIN sse_manager.connections
                     /\ CountOf(sse_manager', u) = CountOf(sse_manager, u) - 1
                     /\ \A x \in ManagerUsers \ {u} :
                           CountOf(sse_manager', x) = CountOf(sse_manager, x)
                     /\ \A x \in ManagerQueues \ {q} : queues'[x] = queues[x]
             ELSE /\ ~resp'.ok
                  /\ sse_manager' = sse_manager
                  /\ \A x \in ManagerQueues \ {q} : queues'[x] = queues[x] ]_vars

\* A second disconnect of a queue, while its caller still holds another one.
C14_Witness ==
    /\ resp.op = "disconnect"
    /\ ~resp.ok
    /\ resp.queue \notin DOMAIN sse_manager.queue_metadata
    /\ \E u \in ManagerUsers :
          /\ CountOf(sse_manager, u) = 1
          /\ \A q \in QueuesOfUser(sse_manager, u) : queues[q] # <<>>

\* C15: a broadcast to an execution that has no subscriber leaves the
\* registry and every queue as they were; in particular it creates no entry
\* for that execution.
C15_BroadcastToNobody ==
    [][ ( /\ resp'.op = "broadcast"
          /\ QueuesOfExecution(sse_manager, resp'.execution) = {} )
        => /\ sse_manager' = sse_manager
           /\ queues' = queues
           /\ resp'.execution \in DOMAIN sse_manager'.connections
                 <=> resp'.execution \in DOMAIN sse_manager.connections ]_vars

\* A broadcast to an execution without an entry, while the other execution
\* has a subscriber.
C15_Witness ==
    /\ resp.op = "broadcast"
    /\ resp.execution \notin DOMAIN sse_manager.connections
    /\ \E e \in ManagerExecutions : QueuesOfExecution(sse_manager, e) # {}

\* C16: a broadcast appends exactly one event to the queue of every
\* subscriber registered for the execution when it is called whose put does
\* not raise, and nothing to any other queue.
C16_BroadcastReachesSubscribers ==
    [][ resp'.op = "broadcast" =>
          \A q \in ManagerQueues :
             queues'[q] =
                IF q \in QueuesOfExecution(sse_manager, resp'.execution) \ resp'.dead
                THEN Append(queues[q], [event |-> "message", ref |-> 0, source |-> None])
                ELSE queues[q] ]_vars

\* Two subscribers of the execution received the event, a subscriber of the
\* other execution did not.
C16_Witness ==
    /\ resp.op = "broadcast"
    /\ resp.dead = {}
    /\ \E q1, q2 \in QueuesOfExecution(sse_manager, resp.execution) :
          q1 # q2 /\ queues[q1] # <<>> /\ queues[q2] # <<>>
    /\ \E e \in ManagerExecutions \ {resp.execution} :
          \E q \in QueuesOfExecution(sse_manager, e) : queues[q] = <<>>

\* C17: when a put of a broadcast raises, exactly the subscribers whose put
\* raised are unregistered, each lowering its caller's count by one; every
\* other subscriber of the execution receives the event and stays
\* registered; and the execution has an entry afterwards only if a
\* subscriber is left.
C17_FailedSendDisconnectsOne ==
    [][ (resp'.op = "broadcast" /\ resp'.dead # {}) =>
          LET e == resp'.execution
              before == QueuesOfExecution(sse_manager, e)
          IN /\ DOMAIN sse_manager'.queue_metadata =
                   DOMAIN sse_manager.queue_metadata \ resp'.dead
             /\ \A u \in ManagerUsers :
                   CountOf(sse_manager', u) =
                      CountOf(sse_manager, u)
                         - Cardinality(QueuesOfUser(sse_manager, u) \cap resp'.dead)
             /\ \A q \in before \ resp'.dead :
                   /\ q \in PoolOf(sse_manager', e)
                   /\ queues'[q] = Append(queues[q],
                                          [event |-> "message", ref |-> 0, source |-> None])
             /\ PoolOf(sse_manager', e) = before \ resp'.dead
             /\ (before \ resp'.dead = {}) => e \notin DOMAIN sse_manager'.connections ]_vars

(***************************************************************************)
(* Properties of a successful review.                                      *)
(***************************************************************************)
\* The handler of a review of checkpoint c that is waiting for resume_crew.
Resuming(c, is_approve) ==
    {h \in BagToSet(req) : h.pc = "resume" /\ h.checkpoint = c /\ h.flag = is_approve}

\* C18: an approve of a PENDING checkpoint commits the checkpoint APPROVED
\* with the reviewer, the feedback and the review time together with exactly
\* one human Activity, before any call to the job runner; when the resume
\* call then succeeds the call was made with approve = true, the checkpoint
\* stays APPROVED as it was committed and the execution is RUNNING; and the
\* last step puts one 'approval' event on the queue of every subscriber of
\* the execution and on no other queue, and answers without a retry.
C18_ApproveSucceeds ==
    [][ /\ ( /\ resp'.op = "approve_checkpoint"
             /\ resp'.target \in 1..Len(checkpoints)
             /\ checkpoints[resp'.target].status = CP_PENDING )
           => LET c == resp'.target
              IN /\ checkpoints' = [checkpoints EXCEPT ![c] =
                       [@ EXCEPT !.status = CP_APPROVED,
                                 !.reviewed_by = resp'.arg.user,
                                 !.reviewer_feedback = resp'.arg.feedback,
                                 !.reviewed_at = Now]]
                 /\ Len(activities') = Len(activities) + 1
                 /\ SubSeq(activities', 1, Len(activities)) = activities
                 /\ activities'[Len(activities')].kind = "approved"
                 /\ activities'[Len(activities')].ref = c
                 /\ activities'[Len(activities')].execution_id = checkpoints[c].execution_id
                 /\ jobCalls' = jobCalls
                 /\ executions' = executions
        /\ ( /\ resp'.op = "resume_return"
             /\ resp'.arg = "2xx"
             /\ Resuming(resp'.target, TRUE) # {} )
           => LET c == resp'.target
                  e == checkpoints[c].execution_id
              IN /\ checkpoints[c].status = CP_APPROVED
                 /\ \E i \in 1..Len(activities) :
                       activities[i].kind = "approved" /\ activities[i].ref = c
                 /\ \E call \in jobCalls' :
                       /\ call.op = "resume"
                       /\ call.checkpoint = c
                       /\ call.job = executions[e].crewai_execution_id
                       /\ call.task = checkpoints[c].task_id
                       /\ call.approve
                       /\ call.accepted
                 /\ \A call \in jobCalls' \ jobCalls : call.op = "resume" /\ call.approve
                 /\ checkpoints' = checkpoints
                 /\ activities' = activities
                 /\ executions'[e].status = RUNNING
        /\ ( resp'.op = "review_broadcast" /\ ~resp'.flag )
           => LET c == resp'.target
                  e == checkpoints[c].execution_id
              IN /\ resp'.code = 200
                 /\ checkpoints'[c].status = CP_APPROVED
                 /\ \A q \in Queues :
                       queues'[q] =
                          IF q \in QueuesOfExecution(sse_manager, e)
                          THEN Append(queues[q],
                                      [event |-> "approval", ref |-> c, source |-> None])
                          ELSE queues[q]
                 /\ UNCHANGED <<executions, checkpoints, activities, jobCalls>> ]_vars

\* C19: a reject of a PENDING checkpoint commits the checkpoint REJECTED
\* with the reviewer, the feedback and one Activity before the job runner is
\* called; when the resume call then succeeds it was made with approve =
\* false, the checkpoint stays REJECTED and the execution is RUNNING; and the
\* last step broadcasts one 'approval' event to the execution's subscribers
\* and answers that a retry is expected.
C19_RejectSucceeds ==
    [][ /\ ( /\ resp'.op = "reject_checkpoint"
             /\ resp'.target \in 1..Len(checkpoints)
             /\ checkpoints[resp'.target].status = CP_PENDING )
           => LET c == resp'.target
              IN /\ checkpoints'[c].status = CP_REJECTED
                 /\ checkpoints'[c].reviewed_by = resp'.arg.user
                 /\ checkpoints'[c].reviewer_feedback = resp'.arg.feedback
                 /\ Len(activities') = Len(activities) + 1
                 /\ activities'[Len(activities')].kind = "revision_requested"
                 /\ activities'[Len(activities')].ref = c
                 /\ jobCalls' = jobCalls
        /\ ( /\ resp'.op = "resume_return"
             /\ resp'.arg = "2xx"
             /\ Resuming(resp'.target, FALSE) # {} )
           => LET c == resp'.target
                  e == checkpoints[c].execution_id
              IN /\ \E call \in jobCalls' :
                       /\ call.op = "resume"
                       /\ call.checkpoint = c
                       /\ ~call.approve
                       /\ call.accepted
                 /\ \A call \in jobCalls' \ jobCalls : call.op = "resume" /\ ~call.approve
                 /\ checkpoints'[c].status = CP_REJECTED
                 /\ executions'[e].status = RUNNING
        /\ ( resp'.op = "review_broadcast" /\ resp'.flag )
           => LET c == resp'.target
                  e == checkpoints[c].execution_id
              IN /\ resp'.code = 200
                 /\ checkpoints'[c].status = CP_REJECTED
                 /\ \A q \in QueuesOfExecution(sse_manager, e) :
                       queues'[q] = Append(queues[q],
                                           [event |-> "approval", ref |-> c, source |-> None])
                 /\ UNCHANGED <<executions, checkpoints, activities, jobCalls>> ]_vars

\* C20: in every workflow mode (revision with instructions that hold a
\* text), a start request that the job runner accepts
\* adds exactly one execution, RUNNING and holding the job id of the answer,
\* and exactly one Activity, the system's kickoff Activity of that
\* execution, and answers with the new execution.
C20_StartInEveryMode ==
    [][ ( /\ resp'.op = "start_execution"
          /\ resp'.arg.mode \in Modes
          /\ (resp'.arg.mode = "revision" => resp'.arg.instructions = "tighten the intro")
          /\ resp'.arg.answer = "2xx" )
        => LET id == Len(executions) + 1
           IN /\ Len(executions') = id
              /\ SubSeq(executions', 1, Len(executions)) = executions
              /\ executions'[id].status = RUNNING
              /\ executions'[id].crewai_execution_id \in JobIds
              /\ \E call \in jobCalls' \ jobCalls :
                    /\ call.op = "kickoff"
                    /\ call.accepted
                    /\ call.job = executions'[id].crewai_execution_id
              /\ Len(activities') = Len(activities) + 1
              /\ SubSeq(activities', 1, Len(activities)) = activities
              /\ activities'[Len(activities')].kind = "kickoff"
              /\ activities'[Len(activities')].execution_id = id
              /\ resp'.code = 201
              /\ resp'.id = id ]_vars

\* C21: when the start call made to the job runner fails, the request adds
\* exactly one execution, FAILED, with an error text and no job id, adds no
\* Activity, answers with the upstream error, and has called the job
\* runner's start once.
C21_StartFailureIsRecorded ==
    [][ ( /\ resp'.op = "start_execution"
          /\ resp'.arg.mode \in {"creation", "repurpose"}
          /\ resp'.arg.answer # "2xx" )
        => LET id == Len(executions) + 1
           IN /\ Len(executions') = id
              /\ SubSeq(executions', 1, Len(executions)) = executions
              /\ executions'[id].status = FAILED
              /\ executions'[id].error_message # None
              /\ executions'[id].crewai_execution_id = NoJob
              /\ executions'[id].completed_at = None
              /\ activities' = activities
              /\ resp'.code = 500
              /\ resp'.error = "UpstreamError"
              /\ Cardinality(jobCalls' \ jobCalls) = 1
              /\ \A call \in jobCalls' \ jobCalls :
                    call.op = "kickoff" /\ ~call.accepted /\ call.job = NoJob
              /\ UNCHANGED <<checkpoints, sse_manager, queues, req>> ]_vars

\* A start in repurpose mode has just failed on a transport error.
C21_Witness ==
    /\ resp.op = "start_execution"
    /\ resp.arg.mode = "repurpose"
    /\ resp.arg.answer = "transport_error"
    /\ resp.code = 500
    /\ Len(executions) = 1
    /\ executions[1].status = FAILED
    /\ executions[1].error_message # None
    /\ activities = <<>>
    /\ Cardinality(jobCalls) = 1
    /\ \A call \in jobCalls : call.op = "kickoff" /\ ~call.accepted

\* C22: a start request in revision mode whose revision instructions are
\* left out, null or empty is answered with a validation error and changes
\* nothing: no execution is added and the job runner is not called.
C22_RevisionNeedsInstructions ==
    [][ ( /\ resp'.op = "start_execution"
          /\ resp'.arg.mode = "revision"
          /\ resp'.arg.instructions \in {Absent, Null, ""} )
        => /\ resp'.code = 422
           /\ resp'.error = "ValidationError"
           /\ UNCHANGED <<executions, checkpoints, activities, jobCalls, sse_manager,
                          queues, req>> ]_vars

\* C23: a HITL notification for the job of an execution that has no PENDING
\* checkpoint for the task id adds exactly one checkpoint, PENDING and
\* unreviewed, for that execution and task id, adds exactly one Activity
\* about it, and sets the execution AWAITING_APPROVAL, without touching a
\* queue; the step that follows puts one 'checkpoint' event for that
\* checkpoint on the queue of every subscriber of the execution and on no
\* other queue.
C23_NotificationCreatesCheckpoint ==
    [][ /\ \A e \in 1..Len(executions) :
              ( /\ resp'.op = "receive_hitl_checkpoint"
                /\ executions[e].crewai_execution_id = resp'.target
                /\ ~\E c \in 1..Len(checkpoints) :
                      /\ checkpoints[c].execution_id = e
                      /\ checkpoints[c].task_id = resp'.arg
                      /\ checkpoints[c].status = CP_PENDING )
              => /\ checkpoints' = Append(checkpoints,
                       [execution_id |-> e, task_id |-> resp'.arg, status |-> CP_PENDING,
                        reviewer_feedback |-> None, reviewed_by |-> None,
                        reviewed_at |-> None])
                 /\ Len(activities') = Len(activities) + 1
                 /\ SubSeq(activities', 1, Len(activities)) = activities
                 /\ activities'[Len(activities')].kind = "checkpoint"
                 /\ activities'[Len(activities')].execution_id = e
                 /\ activities'[Len(activities')].ref = Len(checkpoints')
                 /\ executions' = [executions EXCEPT ![e].status = AWAITING_APPROVAL]
                 /\ UNCHANGED <<queues, sse_manager, jobCalls>>
                 /\ \E h \in BagToSet(req') :
                       /\ h.pc = "hitl_broadcast"
                       /\ h.execution = e
                       /\ h.checkpoint = Len(checkpoints')
                       /\ BagCardinality(req') = BagCardinality(req) + 1
        /\ resp'.op = "hitl_broadcast"
           => /\ resp'.code = 200
              /\ checkpoints[resp'.id].execution_id = resp'.target
              /\ \A q \in Queues :
                    queues'[q] =
                       IF q \in QueuesOfExecution(sse_manager, resp'.target)
                       THEN Append(queues[q], [event |-> "checkpoint", ref |-> resp'.id,
                                               source |-> None])
                       ELSE queues[q]
              /\ UNCHANGED <<executions, checkpoints, activities, jobCalls>> ]_vars

\* A viewer of the execution has received the 'checkpoint' event of a
\* checkpoint that is PENDING while the execution is AWAITING_APPROVAL.
C23_Witness ==
    /\ resp.op = "hitl_broadcast"
    /\ checkpoints[resp.id].status = CP_PENDING
    /\ executions[resp.target].status = AWAITING_APPROVAL
    /\ \E q \in QueuesOfExecution(sse_manager, resp.target) :
          /\ Len(queues[q]) = 1
          /\ queues[q][1] = [event |-> "checkpoint", ref |-> resp.id, source |-> None]

\* C24: a HITL notification whose job id is the job id of no execution
\* answers NotFound and changes no table, no queue, no registry entry, and
\* leaves no broadcast to be made.
C24_UnknownJobIsNotFound ==
    [][ ( /\ resp'.op = "receive_hitl_checkpoint"
          /\ \A e \in 1..Len(executions) :
                executions[e].crewai_execution_id # resp'.target )
        => /\ resp'.code = 404
           /\ resp'.error = "NotFound"
           /\ UNCHANGED <<executions, checkpoints, activities, sse_manager, queues,
                          jobCalls, req>> ]_vars

\* A notification for an unknown job was turned away while an execution was
\* running with a viewer.
C24_Witness ==
    /\ resp.op = "receive_hitl_checkpoint"
    /\ resp.code = 404
    /\ Len(executions) = 1
    /\ executions[1].status = RUNNING
    /\ resp.target # executions[1].crewai_execution_id
    /\ Registered(1)
    /\ checkpoints = <<>>

\* C25: a step changes the status of a checkpoint only from PENDING to
\* APPROVED (the marking step of an approve of it), from PENDING to REJECTED
\* (the marking step of a reject of it), or from APPROVED or REJECTED back
\* to PENDING, in the failure step of the request that is waiting for the
\* resume call of that very decision; a new checkpoint is PENDING, and no
\* checkpoint is ever REVISION_REQUESTED.
C25_LegalCheckpointTransitions ==
    [][ /\ Len(checkpoints') >= Len(checkpoints)
        /\ \A c \in 1..Len(checkpoints') :
              /\ checkpoints'[c].status \in {CP_PENDING, CP_APPROVED, CP_REJECTED}
              /\ c > Len(checkpoints) => checkpoints'[c].status = CP_PENDING
        /\ \A c \in 1..Len(checkpoints) :
              checkpoints'[c].status # checkpoints[c].status
              => \/ /\ checkpoints[c].status = CP_PENDING
                    /\ checkpoints'[c].status = CP_APPROVED
                    /\ resp'.op = "approve_checkpoint"
                    /\ resp'.target = c
                 \/ /\ checkpoints[c].status = CP_PENDING
                    /\ checkpoints'[c].status = CP_REJECTED
                    /\ resp'.op = "reject_checkpoint"
                    /\ resp'.target = c
                 \/ /\ checkpoints[c].status \in {CP_APPROVED, CP_REJECTED}
                    /\ checkpoints'[c].status = CP_PENDING
                    /\ resp'.op = "resume_return"
                    /\ resp'.target = c
                    /\ resp'.code = 500
                    /\ \E h \in BagToSet(req) :
                          /\ h.pc = "resume"
                          /\ h.checkpoint = c
                          /\ h.flag <=> checkpoints[c].status = CP_APPROVED
                          /\ req' = req (-) SetToBag({h}) ]_vars

\* A checkpoint that was approved and rolled back has now been rejected.
C25_Witness ==
    /\ resp.op = "reject_checkpoint"
    /\ resp.target \in 1..Len(checkpoints)
    /\ checkpoints[resp.target].status = CP_REJECTED
    /\ \E call \in jobCalls :
          /\ call.op = "resume"
          /\ call.checkpoint = resp.target
          /\ call.approve
          /\ ~call.accepted

\* C26: every resume call the job runner has received carries a HITL
\* descriptor and an event-stream descriptor, and each is equal, in target
\* URL, bearer credential and event-type list, to the one every start call
\* carried.
C26_ResumeReattachesCallbacks ==
    \A r \in jobCalls :
        r.op = "resume" =>
            /\ \E k \in jobCalls : k.op = "kickoff" /\ k.accepted
            /\ \A key \in {"humanInputWebhook", "webhooks"} :
                  /\ Cardinality({d \in r.callbacks : d[1] = key}) = 1
                  /\ \A k \in jobCalls :
                        k.op = "kickoff" =>
                           \E d \in r.callbacks, dk \in k.callbacks :
                              /\ d[1] = key
                              /\ dk[1] = key
                              /\ d[2].url = dk[2].url
                              /\ d[2].token = dk[2].token
                              /\ d[2].strategy = dk[2].strategy
                              /\ key = "webhooks" => d[2].events = dk[2].events
                              /\ d[2] = dk[2]

\* The job runner has received an approving and a rejecting resume call.
C26_Witness ==
    /\ \E r \in jobCalls : r.op = "resume" /\ r.approve /\ r.accepted
    /\ \E r \in jobCalls : r.op = "resume" /\ ~r.approve
    /\ \E k \in jobCalls :
          /\ k.op = "kickoff"
          /\ \E d \in k.callbacks : d[1] = "webhooks" /\ d[2].events = ALL_EVENTS

\* C27: the client's cancel returns true only when the platform confirmed
\* the cancellation, returns false when the platform answers not-found or
\* not-supported, and raises, returning nothing, on every other failure:
\* another status that is not a success, or no answer at all.
C27_CancelClientOutcomes ==
    [][ resp'.op = "client_cancel" =>
          LET answer == resp'.answer
              outcome == resp'.outcome
              confirmed == answer.kind = "status" /\ answer.code \in 200..299
              refused == answer.kind = "status" /\ answer.code \in {404, 405}
          IN /\ (~outcome.raised /\ outcome.value) => confirmed
             /\ confirmed => (~outcome.raised /\ outcome.value)
             /\ refused => (~outcome.raised /\ ~outcome.value)
             /\ (~confirmed /\ ~refused) => outcome.raised ]_vars

C29_WebhookNeedsToken ==
    [][ \A authorization \in Authorizations :
          ( /\ authorization.value # <<"Bearer ", WEBHOOK_SECRET_TOKEN>>
            /\ \/ \E job \in JobIds \cup {UnknownJob}, t \in Tasks :
                     webhook_hitl(authorization, job, t)
               \/ \E n \in 1..MaxBatch : \E payload \in [1..n -> WebhookEvents] :
                     webhook_stream(authorization, payload) )
          => /\ resp'.op = "verify_webhook_token"
             /\ resp'.code \in {401, 422}
             /\ UNCHANGED <<executions, checkpoints, activities, queues>> ]_vars

\* C30: every queue the Connection Manager registered for an accepted
\* subscription is unregistered in the end, however its stream ends: the
\* generator left normally or by an error, or the response was never sent.
C30_SubscriptionIsUnregistered ==
    \A q \in Queues :
       (q \in DOMAIN sse_manager.queue_metadata) ~> (q \notin DOMAIN sse_manager.queue_metadata)

C32_RollbackClearsReviewerFields ==
    [][ (resp'.op = "resume_return" /\ resp'.code = 500) =>
          /\ checkpoints'[resp'.target].reviewer_feedback = None
          /\ checkpoints'[resp'.target].reviewed_by = None
          /\ checkpoints'[resp'.target].reviewed_at = None ]_vars

C34_FirstMatchingRule ==
    resp.op = "infer_checkpoint_type" =>
       LET has(words) == \E i \in 1..Len(resp.task_id) : resp.task_id[i] \in words
           brand == has({"Brand", "brand", "voice"})
           style == has({"STYLE", "style", "compliance"})
       IN /\ brand => resp.checkpoint_type = "brand_voice"
          /\ (~brand /\ style) => resp.checkpoint_type = "style_compliance"
          /\ (~brand /\ ~style) => resp.checkpoint_type = "final_qa"

C34_Witness ==
    /\ resp.op = "infer_checkpoint_type"
    /\ resp.task_id = <<"STYLE", "review", "Brand">>
    /\ resp.checkpoint_type = "brand_voice"

\* C35: in every reachable state an execution that is not COMPLETED, FAILED
\* or CANCELLED and has a PENDING checkpoint is AWAITING_APPROVAL.
C35_PendingMeansAwaiting ==
    \A c \in 1..Len(checkpoints) :
       ( /\ checkpoints[c].status = CP_PENDING
         /\ executions[checkpoints[c].execution_id].status \notin {COMPLETED, FAILED, CANCELLED} )
       => executions[checkpoints[c].execution_id].status = AWAITING_APPROVAL

\* C36: of the cancel requests for one execution only one gets past the
\* status check: at no time are two of them in flight past it, and the
\* execution has at most one cancellation Activity.
C36_OneCancelWins ==
    \A e \in 1..Len(executions) :
       /\ \A h \in DOMAIN req :
             (h.pc \in {"cancel", "cancel_broadcast"} /\ h.execution = e) =>
                /\ req[h] <= 1
                /\ \A g \in DOMAIN req :
                      (g.pc \in {"cancel", "cancel_broadcast"} /\ g.execution = e) => g = h
       /\ Cardinality({i \in 1..Len(activities) :
                          activities[i].kind = "cancelled" /\ activities[i].execution_id = e}) <= 1

\* C37: in every reachable state of the connection registry each caller's
\* stored count is the number of registered queues of that caller, every
\* registered queue is in the set of its own execution and in no other set,
\* every queue of a set is registered, and no execution has an empty set.
C37_RegistryConsistent ==
    /\ \A u \in ManagerUsers :
          (IF u \in DOMAIN sse_manager.user_connections
           THEN sse_manager.user_connections[u] ELSE 0)
          = Cardinality({q \in DOMAIN sse_manager.queue_metadata :
                            sse_manager.queue_metadata[q][2] = u})
    /\ \A q \in DOMAIN sse_manager.queue_metadata :
          \A e \in ManagerExecutions :
             (e \in DOMAIN sse_manager.connections /\ q \in sse_manager.connections[e])
             <=> sse_manager.queue_metadata[q][1] = e
    /\ \A e \in DOMAIN sse_manager.connections :
          /\ sse_manager.connections[e] \subseteq DOMAIN sse_manager.queue_metadata
          /\ sse_manager.connections[e] # {}

\* C38: a step of the event-stream handler changes no execution and no
\* checkpoint and calls nothing on the job runner, whatever the types of the
\* events: it only appends Activities that came from events, and what it
\* puts on subscribers' queues are 'message' events.
C38_IngestOnlyAppends ==
    [][ resp'.op \in StreamSteps =>
          /\ executions' = executions
          /\ checkpoints' = checkpoints
          /\ jobCalls' = jobCalls
          /\ Len(activities') >= Len(activities)
          /\ SubSeq(activities', 1, Len(activities)) = activities
          /\ \A i \in (Len(activities) + 1)..Len(activities') : activities'[i].event_id # None
          /\ \A q \in Queues : \A i \in 1..Len(queues'[q]) :
                i > Len(queues[q]) => queues'[q][i].event = "message" ]_vars

C38_Witness ==
    /\ resp.op = "stream_broadcast"
    /\ resp.code = 200
    /\ \E i \in 1..Len(activities) :
          /\ activities[i].event_id # None
          /\ activities[i].kind = "error"
          /\ executions[activities[i].execution_id].status = AWAITING_APPROVAL
          /\ \E c \in 1..Len(checkpoints) :
                /\ checkpoints[c].execution_id = activities[i].execution_id
                /\ checkpoints[c].status = CP_PENDING

\* C39: a subscriber's stream is first in, first out.  Every step leaves
\* each queue as it was, or with one event more at its end, or without its
\* oldest event (the one the generator hands to the client), or empty when
\* the subscription begins or ends: no event overtakes an event broadcast
\* before it, and a heartbeat goes to the end of the queue like any event.
C39_StreamKeepsBroadcastOrder ==
    [][ /\ \A q \in Queues :
              \/ queues'[q] = queues[q]
              \/ /\ Len(queues'[q]) = Len(queues[q]) + 1
                 /\ SubSeq(queues'[q], 1, Len(queues[q])) = queues[q]
                 /\ resp'.op \in {"broadcast", "send_heartbeat"}
                 /\ resp'.op = "send_heartbeat" <=>
                       queues'[q][Len(queues'[q])].event = "heartbeat"
              \/ /\ queues[q] # <<>>
                 /\ queues'[q] = SubSeq(queues[q], 2, Len(queues[q]))
                 /\ resp'.op = "event_generator_next"
              \/ /\ queues'[q] = <<>>
                 /\ resp'.op \in {"stream_execution_events", "event_generator_finally"}
        /\ resp'.op = "event_generator_next" =>
              queues'[resp'.arg] = SubSeq(queues[resp'.arg], 2, Len(queues[resp'.arg])) ]_vars

C39_Witness ==
    /\ resp.op = "event_generator_next"
    /\ resp.arg \in DOMAIN sse_manager.queue_metadata
    /\ Len(queues[resp.arg]) = 1
    /\ queues[resp.arg][1].event = "cancelled"

\* C40: once a reject's resume call has succeeded, the next HITL
\* notification for the same execution and task id creates a new PENDING
\* checkpoint under another id, sets the execution to AWAITING_APPROVAL and
\* leaves the rejected checkpoint as it is.  Stated for the notification
\* that is handled right after the resume call returned.
C40_RejectedTaskIsReopened ==
    [][ ( /\ resp.op = "resume_return"
          /\ resp.code = 0
          /\ checkpoints[resp.target].status = CP_REJECTED
          /\ resp'.op = "receive_hitl_checkpoint"
          /\ resp'.arg = checkpoints[resp.target].task_id
          /\ resp'.target =
                executions[checkpoints[resp.target].execution_id].crewai_execution_id )
        =>
          LET rejected == resp.target
              execution_id == checkpoints[rejected].execution_id
              created == Len(checkpoints) + 1
          IN /\ Len(checkpoints') = created
             /\ created # rejected
             /\ checkpoints'[created].status = CP_PENDING
             /\ checkpoints'[created].execution_id = execution_id
             /\ checkpoints'[created].task_id = checkpoints[rejected].task_id
             /\ executions'[execution_id].status = AWAITING_APPROVAL
             /\ checkpoints'[rejected] = checkpoints[rejected] ]_vars

====
